---- MODULE Spec2Model ----
(***************************************************************************)
(* The JSON-RPC client core of the PRET MCP clients: one client object of  *)
(* one of the three implementations (StandalonePRETMCPClient,              *)
(* InteractivePRETMCPClient, the uAgent wrapper's PRETMCPClient), the      *)
(* child server process it spawns and the two pipes between them.          *)
(*                                                                         *)
(* A client operation runs up to its first suspension (the await on        *)
(* stdout.readline()) in one step and finishes in a second step when the   *)
(* read completes with a line, with EOF, or (standalone and interactive)   *)
(* with the wait_for timeout.  The child writes lines and exits on its own *)
(* schedule in between.                                                    *)
(*                                                                         *)
(* Spec is the client with one caller; FairSpec adds the event loop's      *)
(* scheduling.  CallFairSpec is the calls of a connected standalone or     *)
(* interactive client, MonitorSpec the child's stderr and the task that    *)
(* reads it, ConcSpec one wrapper client shared by concurrent callers.     *)
(* WireSpec is the serialisation of the requests of one session, from the  *)
(* dict to the line, and AgentSpec the uAgent with its session_clients     *)
(* map, its message handlers and on_shutdown.  SessionSpec is the agent    *)
(* with its clock and is_session_valid, QuerySpec the routing of a query   *)
(* by process_compliance_query, ChatSpec one handle_chat_message call over *)
(* the items of its message, and DriverSpec a driver (test_standalone_     *)
(* client, interactive_menu, batch_test_mode) around one client.           *)
(***************************************************************************)
EXTENDS Integers, Sequences, FiniteSets, TLC

\* ---------------------------------------------------------------- bounds
MaxReq == 3        \* requests one client may allocate / write
MaxWrites == 2     \* lines the child writes to its stdout in one run
MaxErr == 3        \* lines the child writes to its stderr
MaxCalls == 4      \* tools/call requests concurrent callers write
MaxLen == 2        \* characters of a tool argument
MaxLines == 3      \* request lines of one session
MaxProcs == 2      \* children the agent's clients spawn

\* ------------------------------------------------------ program constants
STANDALONE_TIMEOUT == 10     \* wait_for(..., timeout=10.0)
INTERACTIVE_TIMEOUT == 15    \* wait_for(..., timeout=15.0)
SESSION_TIMEOUT == 1800      \* SESSION_TIMEOUT = 30 * 60

VARIABLES
    impl,          \* which client class this object is
    process,       \* self.process: "None", or "Process" once one was spawned
    child,         \* state of the child behind self.process
    request_id,    \* self.request_id (standalone, interactive)
    is_connected,  \* self.is_connected (interactive)
    pc,            \* where the caller is: idle, sleeping, reading
    op,            \* the operation in progress
    request,       \* the request dict of the operation in progress
    stdin,         \* request lines written to self.process.stdin, in order
    sent,          \* ids of all request lines this client wrote, in order
    stdout,        \* lines the child wrote and the client has not read yet
    waited,        \* seconds the pending wait_for has waited so far
    ret,           \* what the step just taken returned or raised to the caller
    nwrites,       \* lines the child has written so far
    timedout,      \* ids of the requests on stdin whose read timed out
    handshake,     \* how the handshake with the current child stands
    closed,        \* wrapper: cleanup() has closed self.process.stdin
    stderr,        \* lines the child wrote to its stderr, not yet read
    monitor,       \* the _monitor_stderr task: none, running, ended
    log,           \* what the client has printed of the child's stderr
    nerr,          \* lines the child has written to its stderr so far
    calls,         \* concurrent callers of one wrapper client
    wire,          \* the request a call builds and the bytes it writes
    session_clients, \* the agent's session_clients dict
    user_sessions, \* the agent's user_sessions dict: last_activity by session
    now,           \* time.time() as the agent reads it
    procs,         \* the children the agent's clients have spawned
    handlers,      \* the handle_chat_message coroutines in progress
    shutdown,      \* where on_shutdown is
    event,         \* what the agent's step just taken did
    query,         \* the text process_compliance_query was called with
    answer,        \* what that call did and returned
    chat,          \* one handle_chat_message call: where it is in its message
    trace,         \* what that call has sent and done, in order
    driver         \* where a driver (test or menu) of one client is

vars == <<impl, process, child, request_id, is_connected, pc, op, request,
          stdin, sent, stdout, waited, ret, nwrites, timedout, handshake,
          closed, stderr, monitor, log, nerr, calls, wire, session_clients,
          user_sessions, now, procs, handlers, shutdown, event, query,
          answer, chat, trace, driver>>

\* one client object with its child
client == <<impl, process, child, request_id, is_connected, pc, op, request,
            stdin, sent, stdout, waited, ret, nwrites, timedout, handshake,
            closed>>

\* the serialisation of requests, and the agent with its sessions
agentvars == <<session_clients, user_sessions, now, procs, handlers,
               shutdown, event>>
\* the routing of a query, the handling of one message, and a driver
routing == <<query, answer>>
chatting == <<chat, trace>>
extra == <<routing, chatting, driver>>
apart == <<wire, agentvars, extra>>

\* the stderr monitor's state and the concurrent callers' state, and the rest
side == <<stderr, monitor, log, nerr, calls, apart>>

Impls == {"standalone", "interactive", "wrapper"}
Timed == {"standalone", "interactive"}

\* ------------------------------------------------------- python values
Str(s) == [str |-> s]
None == [none |-> TRUE]
Success(data) == [success |-> TRUE, data |-> data]
Failure(error) == [success |-> FALSE, error |-> error]
Return(v) == [kind |-> "return", value |-> v]
Raise(msg) == [kind |-> "raise", value |-> Str(msg)]

\* ------------------------------------------------------------ wire lines
\* a tools/call result is an object {content: [...]}
Results == {[content |-> "R1"]}
ErrorObjects == {[code |-> -32602, message |-> "Invalid params"]}

ObjectLine(doc) == [kind |-> "object", doc |-> doc]
ScalarLine == [kind |-> "scalar"]      \* valid JSON that is no object: 5
GarbageLine == [kind |-> "garbage"]    \* text that is not JSON
BlankLine == [kind |-> "blank"]        \* b"\n": stripped text is empty
EOF == [kind |-> "eof"]                \* b"": readline() at end of stream
\* the beginning of a response object, cut off before its newline: readline()
\* hands it over when the stream ends there
PartialLine == [kind |-> "partial"]

ResponseDocs(ids) ==
    {[id |-> i, result |-> r] : i \in ids, r \in Results}
    \cup {[id |-> i, error |-> e] : i \in ids, e \in ErrorObjects}
    \cup {[id |-> i] : i \in ids}

\* what the child may write: a response to a request it was sent, or a line
\* that is no response
ServerLines(ids) == {ObjectLine(d) : d \in ResponseDocs(ids)}
                    \cup {ScalarLine, GarbageLine, BlankLine}

\* the ids of the request lines in `lines`
IdsOf(lines) == {lines[k].id : k \in DOMAIN lines}

\* the callers that may use one wrapper client at the same time
Callers == {1, 2}
IdleCall == [pc |-> "idle", req |-> 0, got |-> 0, value |-> None]
NoCalls == [c \in Callers |-> IdleCall]

\* ------------------------------------------------ Python values on the wire
IntValue(n) == [int |-> n]
\* a str, as the sequence of its characters
Text(chars) == [text |-> chars]
\* a dict: its items in insertion order, each <<key, value>>, the key a text
Dict(items) == [dict |-> items]

\* characters: a run of plain ASCII text counts as one, the others are named
QUOTE == "QUOTE"
BACKSLASH == "BACKSLASH"
LF == "LF"
SP == "SP"
EACUTE == "EACUTE"

\* no call has been made
NoWire == [pc |-> "off", impl |-> "none", request_id |-> 0, request |-> None,
           name |-> <<>>, arguments |-> None, line |-> <<>>, nlines |-> 0,
           nreads |-> 0, ncalls |-> 0]

\* --------------------------------------------------------------- the agent
Sessions == {"s1", "s2"}
Handlers == {1, 2}
IdleHandler == [pc |-> "idle", sid |-> "none", client |-> 0]
NoShutdown == [pc |-> "no", todo |-> {}, size |-> 0, cur |-> 0,
               raised |-> FALSE]
\* the child of a PRETMCPClient made for the session s: whether it runs,
\* whether cleanup() has closed its stdin, whether that cleanup() has returned
NewProc(s) == [sid |-> s, state |-> "running", asked |-> FALSE,
               cleaned |-> FALSE]
NoEvent == [kind |-> "none", sid |-> "none", client |-> 0]
\* process_compliance_query has not been called
NoAnswer == [route |-> "none", tool |-> "none", name |-> <<>>,
             reply |-> "none"]
\* no driver has constructed the client
NoDriver == [pc |-> "none", how |-> "none"]
\* handle_chat_message is not running
NoChat == [pc |-> "idle", content |-> <<>>, item |-> 0, stored |-> FALSE,
           text |-> "none", cause |-> "none"]
\* user_sessions has no entry for the session
NoActivity == -1

ApartInit ==
    /\ wire = NoWire
    /\ session_clients = [s \in Sessions |-> 0]
    /\ user_sessions = [s \in Sessions |-> NoActivity]
    /\ now = 0
    /\ procs = <<>>
    /\ handlers = [h \in Handlers |-> IdleHandler]
    /\ shutdown = NoShutdown
    /\ event = NoEvent
    /\ query = <<>>
    /\ answer = NoAnswer
    /\ chat = NoChat
    /\ trace = <<>>
    /\ driver = NoDriver

NoRequest == [id |-> 0, method |-> "none", closed |-> FALSE]
NoEntry == [line |-> [kind |-> "none"], late |-> FALSE]
NoRet == [op |-> "none", id |-> 0, kind |-> "none", value |-> None,
          entry |-> NoEntry]

\* ------------------------------------------- standalone and interactive
\* initialize(): the handshake request carries the current self.request_id
InitRequest(rid) == [id |-> rid, method |-> "initialize"]

\* call_tool(): the tools/call request carries the current self.request_id
ToolRequest(rid) == [id |-> rid, method |-> "tools/call"]

\* (variant: the increment is forgotten)
NextRequestIdStuck(rid) == rid

\* self.request_id += 1
NextRequestId(rid) == rid + 1

\* the timeout= argument of asyncio.wait_for in send_request
ResponseTimeout(i) ==
    IF i = "standalone" THEN STANDALONE_TIMEOUT ELSE INTERACTIVE_TIMEOUT

\* the instants, in seconds after a wait_for began, that the program tells apart
Deadlines == {STANDALONE_TIMEOUT, INTERACTIVE_TIMEOUT}

\* the first of these instants after `t` seconds of waiting
NextDeadline(t) ==
    CHOOSE d \in Deadlines :
        d > t /\ \A e \in Deadlines : e > t => d <= e

\* (variant: both clients wait for the standalone client's timeout)
TimerExpiredStandalone == waited >= STANDALONE_TIMEOUT

\* asyncio.wait_for raises TimeoutError once the timeout has elapsed
TimerExpired == waited >= ResponseTimeout(impl)

\* response_line.decode().strip() followed by json.loads
json_loads(line) ==
    IF line.kind = "object" THEN [ok |-> TRUE, t |-> "dict", v |-> line.doc]
    ELSE IF line.kind = "scalar" THEN [ok |-> TRUE, t |-> "int", v |-> None]
    ELSE [ok |-> FALSE, t |-> "none", v |-> None]

\* (variant: send_request without its `if not response_line` test)
SendRequestReadNoEOFTest(line) ==
    IF line = EOF \/ line.kind = "blank" THEN Raise("Empty response received")
    ELSE IF ~json_loads(line).ok THEN Raise("Invalid JSON response")
    ELSE Return(json_loads(line))

\* send_request() from the moment readline() has returned `line`
SendRequestRead(line) ==
    IF line = EOF THEN Raise("No response received")
    ELSE IF line.kind = "blank" THEN Raise("Empty response received")
    ELSE IF ~json_loads(line).ok THEN Raise("Invalid JSON response")
    ELSE Return(json_loads(line))

\* (variant: call_tool without its try/except, a failure propagates)
CallToolResultNoExcept(sr) ==
    IF sr.kind = "raise" THEN sr
    ELSE IF sr.value.t # "dict" THEN Raise("TypeError")
    ELSE IF "result" \in DOMAIN sr.value.v
         THEN Return(Success(sr.value.v.result))
    ELSE IF "error" \in DOMAIN sr.value.v
         THEN Return(Failure(sr.value.v.error))
    ELSE Return(Failure(Str("No result or error in response")))

\* (variant: the whole response is handed back as data, not its result)
CallToolResultWholeResponse(sr) ==
    IF sr.kind = "raise" THEN Return(Failure(sr.value))
    ELSE IF sr.value.t # "dict" THEN Return(Failure(Str("TypeError")))
    ELSE IF "result" \in DOMAIN sr.value.v
         THEN Return(Success(sr.value.v))
    ELSE IF "error" \in DOMAIN sr.value.v
         THEN Return(Failure(sr.value.v.error))
    ELSE Return(Failure(Str("No result or error in response")))

\* (variant: the result is fetched with response.get("result"))
CallToolResultLenient(sr) ==
    IF sr.kind = "raise" THEN Return(Failure(sr.value))
    ELSE IF sr.value.t # "dict" THEN Return(Failure(Str("TypeError")))
    ELSE IF "error" \in DOMAIN sr.value.v
         THEN Return(Failure(sr.value.v.error))
    ELSE IF "result" \in DOMAIN sr.value.v
         THEN Return(Success(sr.value.v.result))
    ELSE Return(Success(None))

\* call_tool() from the moment send_request() has ended with `sr`
CallToolResult(sr) ==
    IF sr.kind = "raise" THEN Return(Failure(sr.value))
    ELSE IF sr.value.t # "dict" THEN Return(Failure(Str("TypeError")))
    ELSE IF "result" \in DOMAIN sr.value.v
         THEN Return(Success(sr.value.v.result))
    ELSE IF "error" \in DOMAIN sr.value.v
         THEN Return(Failure(sr.value.v.error))
    ELSE Return(Failure(Str("No result or error in response")))

\* what the operation `o` makes of the end `sr` of its send_request()
OpOutcome(o, sr) ==
    IF o = "call_tool" THEN CallToolResult(sr)
    ELSE \* start_server: initialize() raised and it re-raises, or it falls
         \* off its end
        (IF sr.kind = "raise" THEN sr ELSE Return(None))

\* ---------------------------------------------------------- uAgent wrapper
\* _initialize_session(): the handshake request, id 1
W_InitRequest == [id |-> 1, method |-> "initialize"]

\* call_tool(): the tools/call request, id 2
W_ToolRequest == [id |-> 2, method |-> "tools/call"]

\* _initialize_session() from the moment readline() has returned `line`
W_InitializeRead(line) ==
    IF line = EOF THEN Return(None)
    ELSE IF ~json_loads(line).ok THEN Raise("JSONDecodeError")
    ELSE Return(None)

\* call_tool() from the moment readline() has returned `line`
W_CallToolRead(line) ==
    IF line = EOF THEN Return(None)
    ELSE IF ~json_loads(line).ok THEN Return(Failure(Str("JSONDecodeError")))
    ELSE IF json_loads(line).t # "dict" THEN Return(Failure(Str("TypeError")))
    ELSE IF "result" \in DOMAIN json_loads(line).v
         THEN Return(Success(json_loads(line).v.result))
    ELSE Return(Failure(Str("No result in MCP response")))

\* what the wrapper's operation `o` makes of the line it read
W_OpOutcome(o, line) ==
    IF o = "call_tool" THEN W_CallToolRead(line) ELSE W_InitializeRead(line)

\* get_pret_client(): the client is stored in session_clients exactly when
\* connect() did not raise
StoresClient(outcome) == outcome.kind = "return"

\* ------------------------------------------------------------ initial state
\* __init__ of the three classes: no process, request_id 1, not connected
Init ==
    /\ impl \in Impls
    /\ process = "None"
    /\ child = "none"
    /\ request_id = 1
    /\ is_connected = FALSE
    /\ pc = "idle"
    /\ op = "none"
    /\ request = NoRequest
    /\ stdin = <<>>
    /\ sent = <<>>
    /\ stdout = <<>>
    /\ waited = 0
    /\ ret = NoRet
    /\ nwrites = 0
    /\ timedout = {}
    /\ handshake = "none"
    /\ closed = FALSE
    /\ stderr = <<>>
    /\ monitor = "none"
    /\ log = <<>>
    /\ nerr = 0
    /\ calls = NoCalls
    /\ ApartInit

\* ------------------------------------------------------------ step helpers
\* the child has terminated; "reaped" once the event loop has processed the
\* exit (the transport's _proc is None and returncode is set)
Exited == child \in {"exited", "reaped"}

\* the handshake after the operation `o` ended with `outcome`: start_server
\* and connect end normally exactly when their initialize did not raise
HandshakeAfter(o, outcome) ==
    IF o \in {"start_server", "connect"}
    THEN (IF outcome.kind = "return" THEN "ok" ELSE "failed")
    ELSE handshake

\* the operation `o` that sent `req` ends with `outcome`, having read `entry`
Finish(o, req, outcome, entry) ==
    /\ ret' = [op |-> o, id |-> req.id, kind |-> outcome.kind,
               value |-> outcome.value, entry |-> entry]
    /\ pc' = "idle"
    /\ op' = "none"
    /\ request' = NoRequest
    /\ waited' = 0
    /\ handshake' = HandshakeAfter(o, outcome)

\* the request in progress, with a note of whether the child had already
\* terminated when it was written
Pending(req) == [id |-> req.id, method |-> req.method, closed |-> Exited]

\* the operation `o` has written `req` and suspends in readline()
Suspend(o, req) ==
    /\ stdin' = Append(stdin, req)
    /\ sent' = Append(sent, req.id)
    /\ pc' = "reading"
    /\ op' = o
    /\ request' = Pending(req)
    /\ waited' = 0
    /\ ret' = NoRet
    /\ handshake' = IF o = "connect" THEN "pending" ELSE handshake

\* start_server sets is_connected after a handshake that did not raise
ConnectedAfter(o, outcome) ==
    IF impl = "interactive" /\ o = "start_server" /\ outcome.kind = "return"
    THEN TRUE ELSE is_connected

\* send_request() up to the await on readline(), for the operation `o`
SendRequestWrite(o, req) ==
    \/ /\ process = "None"                  \* raise Exception("MCP server not started")
       /\ Finish(o, req, OpOutcome(o, Raise("MCP server not started")), NoEntry)
       /\ UNCHANGED <<stdin, sent, is_connected>>
    \/ /\ process # "None"
       /\ child = "running"
       /\ Suspend(o, req)
       /\ UNCHANGED is_connected
    \/ /\ process # "None"                  \* the pipe is broken, drain() raises
       /\ Exited
       /\ Finish(o, req, OpOutcome(o, Raise("ConnectionResetError")), NoEntry)
       /\ UNCHANGED <<stdin, sent, is_connected>>
    \/ /\ process # "None"                  \* the exit is not noticed yet
       /\ Exited
       /\ Suspend(o, req)
       /\ UNCHANGED is_connected

\* ------------------------------------- standalone and interactive actions
\* start_server(): interactive returns at once when already connected
StartServerConnected ==
    /\ impl = "interactive"
    /\ pc = "idle"
    /\ is_connected
    /\ ret' = [NoRet EXCEPT !.op = "start_server", !.kind = "return"]
    /\ UNCHANGED <<impl, process, child, request_id, is_connected, pc, op,
                   request, stdin, sent, stdout, waited, nwrites, timedout,
                   handshake, closed, side>>

\* start_server(): create_subprocess_exec raises
StartServerSpawnFails ==
    /\ impl \in Timed
    /\ pc = "idle"
    /\ ~is_connected
    /\ ret' = [NoRet EXCEPT !.op = "start_server", !.kind = "raise",
                            !.value = Str("SpawnError")]
    /\ UNCHANGED <<impl, process, child, request_id, is_connected, pc, op,
                   request, stdin, sent, stdout, waited, nwrites, timedout,
                   handshake, closed, side>>

\* start_server(): a process is spawned and self.process set to it, with
\* fresh pipes; then await asyncio.sleep(2)
StartServerSpawn ==
    /\ impl \in Timed
    /\ pc = "idle"
    /\ ~is_connected
    /\ request_id <= MaxReq
    /\ process' = "Process"
    /\ child' = "running"
    /\ stdin' = <<>>
    /\ stdout' = <<>>
    /\ timedout' = {}
    /\ pc' = "sleeping"
    /\ op' = "start_server"
    /\ ret' = NoRet
    /\ handshake' = "pending"
    /\ UNCHANGED <<impl, request_id, is_connected, request, sent,
                   waited, nwrites, closed, side>>

\* start_server(): after the sleep, await self.initialize()
StartServerInitialize ==
    /\ pc = "sleeping"
    /\ request_id' = NextRequestId(request_id)
    /\ SendRequestWrite("start_server", InitRequest(request_id))
    /\ UNCHANGED <<impl, process, child, stdout, nwrites, timedout, closed,
                   side>>

\* call_tool(tool_name, arguments)
CallTool ==
    /\ impl \in Timed
    /\ pc = "idle"
    /\ request_id <= MaxReq
    /\ request_id' = NextRequestId(request_id)
    /\ SendRequestWrite("call_tool", ToolRequest(request_id))
    /\ UNCHANGED <<impl, process, child, stdout, nwrites, timedout, closed,
                   side>>

\* readline() returns the next line the child wrote
ReadLine ==
    /\ impl \in Timed
    /\ pc = "reading"
    /\ stdout # <<>>
    /\ stdout' = Tail(stdout)
    /\ Finish(op, request, OpOutcome(op, SendRequestRead(Head(stdout).line)),
              Head(stdout))
    /\ is_connected' =
         ConnectedAfter(op, OpOutcome(op, SendRequestRead(Head(stdout).line)))
    /\ UNCHANGED <<impl, process, child, request_id, stdin, sent, nwrites,
                   timedout, closed, side>>

\* readline() returns b"": the stream is at its end
ReadEOF ==
    /\ impl \in Timed
    /\ pc = "reading"
    /\ stdout = <<>>
    /\ Exited
    /\ Finish(op, request, OpOutcome(op, SendRequestRead(EOF)),
              [line |-> EOF, late |-> FALSE])
    /\ is_connected' = ConnectedAfter(op, OpOutcome(op, SendRequestRead(EOF)))
    /\ UNCHANGED <<impl, process, child, request_id, stdin, sent, stdout, nwrites,
                   timedout, closed, side>>

\* (variant: the timed-out request is cancelled on the wire)
ResponseTimedOutCancels ==
    /\ impl \in Timed
    /\ pc = "reading"
    /\ TimerExpired
    /\ timedout' = timedout \cup {request.id}
    /\ stdin' = Append(stdin, [id |-> request.id,
                               method |-> "notifications/cancelled"])
    /\ Finish(op, request, OpOutcome(op, Raise("Response timeout")), NoEntry)
    /\ UNCHANGED <<impl, process, child, request_id, is_connected, sent,
                   stdout, nwrites, closed, side>>

\* wait_for gives up: raise Exception("Response timeout")
ResponseTimedOut ==
    /\ impl \in Timed
    /\ pc = "reading"
    /\ TimerExpired
    /\ timedout' = timedout \cup {request.id}
    /\ Finish(op, request, OpOutcome(op, Raise("Response timeout")), NoEntry)
    /\ UNCHANGED <<impl, process, child, request_id, is_connected, stdin, sent,
                   stdout, nwrites, closed, side>>

\* time passes while wait_for is pending, up to the next instant at which
\* one of the program's two deadlines falls
Tick ==
    /\ impl \in Timed
    /\ pc = "reading"
    /\ ~TimerExpired
    /\ waited' = NextDeadline(waited)
    /\ ret' = NoRet
    /\ UNCHANGED <<impl, process, child, request_id, is_connected, pc, op,
                   request, stdin, sent, stdout, nwrites, timedout, handshake,
                   closed, side>>

\* (variant: cleanup without its try/except around terminate())
CleanupResultNoExcept(reaped) ==
    IF reaped THEN Raise("ProcessLookupError") ELSE Return(None)

\* cleanup(): whatever terminate() did, the except clause swallows it
CleanupResult(reaped) == Return(None)

\* cleanup(): process.terminate(), which raises ProcessLookupError once the
\* child has been reaped; the except clause swallows it, and is_connected is
\* cleared only when terminate() did not raise
CleanupBody ==
    /\ impl \in Timed
    /\ pc = "idle"
    /\ \/ /\ process = "None"
          /\ ret' = [NoRet EXCEPT !.op = "cleanup", !.kind = "return"]
          /\ UNCHANGED <<child, is_connected>>
       \/ /\ process # "None"
          /\ child # "reaped"
          /\ child' = "exited"
          /\ is_connected' = FALSE
          /\ ret' = [NoRet EXCEPT !.op = "cleanup", !.kind = "return"]
       \/ /\ process # "None"               \* ProcessLookupError
          /\ child = "reaped"
          /\ ret' = [NoRet EXCEPT !.op = "cleanup",
                                  !.kind = CleanupResult(TRUE).kind,
                                  !.value = CleanupResult(TRUE).value]
          /\ UNCHANGED <<child, is_connected>>
    /\ UNCHANGED <<impl, process, request_id, pc, op, request, stdin, sent,
                   stdout, waited, nwrites, timedout, handshake, closed>>

Cleanup == CleanupBody /\ UNCHANGED side

\* ---------------------------------------------------- uAgent wrapper actions
\* connect(): create_subprocess_exec raises; get_pret_client drops the client
W_ConnectSpawnFails ==
    /\ impl = "wrapper"
    /\ pc = "idle"
    /\ process = "None"
    /\ ret' = [NoRet EXCEPT !.op = "connect", !.kind = "raise",
                            !.value = Str("SpawnError")]
    /\ UNCHANGED <<impl, process, child, request_id, is_connected, pc, op,
                   request, stdin, sent, stdout, waited, nwrites, timedout,
                   handshake, closed, side>>

\* connect(): spawn, then _initialize_session() writes the handshake and
\* awaits readline(); get_pret_client calls it once, on a fresh client
W_Connect ==
    /\ impl = "wrapper"
    /\ pc = "idle"
    /\ process = "None"
    /\ process' = "Process"
    /\ child' = "running"
    /\ stdout' = <<>>
    /\ Suspend("connect", W_InitRequest)
    /\ UNCHANGED <<impl, request_id, is_connected, nwrites, timedout, closed,
                   side>>

\* call_tool(tool_name, arguments) up to the await on readline();
\* handle_chat_message drops a client from session_clients once it has
\* cleaned it up, so a cleaned-up client gets no further call
W_CallTool ==
    /\ impl = "wrapper"
    /\ pc = "idle"
    /\ ~closed
    /\ Len(stdin) < MaxReq
    /\ \/ /\ process = "None"
          /\ Finish("call_tool", W_ToolRequest,
                    Return(Failure(Str("PRET MCP server not started"))), NoEntry)
          /\ UNCHANGED <<stdin, sent>>
       \/ /\ process # "None"
          /\ child = "running"
          /\ Suspend("call_tool", W_ToolRequest)
       \/ /\ process # "None"               \* drain() raises, caught
          /\ Exited
          /\ Finish("call_tool", W_ToolRequest,
                    Return(Failure(Str("ConnectionResetError"))), NoEntry)
          /\ UNCHANGED <<stdin, sent>>
       \/ /\ process # "None"               \* the exit is not noticed yet
          /\ Exited
          /\ Suspend("call_tool", W_ToolRequest)
    /\ UNCHANGED <<impl, process, child, request_id, is_connected, stdout,
                   nwrites, timedout, closed, side>>

\* readline() returns the next line the child wrote
W_ReadLine ==
    /\ impl = "wrapper"
    /\ pc = "reading"
    /\ stdout # <<>>
    /\ stdout' = Tail(stdout)
    /\ Finish(op, request, W_OpOutcome(op, Head(stdout).line), Head(stdout))
    /\ UNCHANGED <<impl, process, child, request_id, is_connected, stdin, sent,
                   nwrites, timedout, closed, side>>

\* readline() returns b"": the stream is at its end
W_ReadEOF ==
    /\ impl = "wrapper"
    /\ pc = "reading"
    /\ stdout = <<>>
    /\ Exited
    /\ Finish(op, request, W_OpOutcome(op, EOF), [line |-> EOF, late |-> FALSE])
    /\ UNCHANGED <<impl, process, child, request_id, is_connected, stdin, sent,
                   stdout, nwrites, timedout, closed, side>>

\* cleanup(): nothing to do without a process; otherwise stdin.close() and
\* then await self.process.wait()
W_Cleanup ==
    /\ impl = "wrapper"
    /\ pc = "idle"
    /\ \/ /\ process = "None"
          /\ ret' = [NoRet EXCEPT !.op = "cleanup", !.kind = "return"]
          /\ UNCHANGED <<pc, op, closed>>
       \/ /\ process # "None"
          /\ closed' = TRUE
          /\ pc' = "waiting"
          /\ op' = "cleanup"
          /\ ret' = NoRet
    /\ UNCHANGED <<impl, process, child, request_id, is_connected, request,
                   stdin, sent, stdout, waited, nwrites, timedout, handshake,
                   side>>

\* cleanup(): wait() returns once the child's exit has been processed
W_CleanupReturns ==
    /\ impl = "wrapper"
    /\ pc = "waiting"
    /\ child = "reaped"
    /\ pc' = "idle"
    /\ op' = "none"
    /\ ret' = [NoRet EXCEPT !.op = "cleanup", !.kind = "return"]
    /\ UNCHANGED <<impl, process, child, request_id, is_connected, request,
                   stdin, sent, stdout, waited, nwrites, timedout, handshake,
                   closed, side>>

\* ----------------------------------------------------------- child process
\* the child writes one line to its stdout; `late` records that the line
\* answers a request whose caller has already timed out
ServerWrite ==
    /\ child = "running"
    /\ nwrites < MaxWrites
    /\ \E l \in ServerLines(IdsOf(stdin)) :
         stdout' = Append(stdout,
             [line |-> l,
              late |-> (l.kind = "object" /\ l.doc.id \in timedout)])
    /\ nwrites' = nwrites + 1
    /\ ret' = NoRet
    /\ UNCHANGED <<impl, process, child, request_id, is_connected, pc, op,
                   request, stdin, sent, waited, timedout, handshake, closed,
                   side>>

\* the child exits (its stdout reaches EOF after the buffered lines)
ServerExit ==
    /\ child = "running"
    /\ child' = "exited"
    /\ ret' = NoRet
    /\ UNCHANGED <<impl, process, request_id, is_connected, pc, op, request,
                   stdin, sent, stdout, waited, nwrites, timedout, handshake,
                   closed, side>>

\* the child dies in the middle of writing a response line: the bytes written
\* so far stay in the pipe without a newline, then the stream ends
ServerExitMidLine ==
    /\ child = "running"
    /\ nwrites < MaxWrites
    /\ stdin # <<>>
    /\ stdout' = Append(stdout, [line |-> PartialLine, late |-> FALSE])
    /\ nwrites' = nwrites + 1
    /\ child' = "exited"
    /\ ret' = NoRet
    /\ UNCHANGED <<impl, process, request_id, is_connected, pc, op, request,
                   stdin, sent, waited, timedout, handshake, closed, side>>

\* the event loop processes the child's exit: returncode is set, the
\* transport forgets the process, wait() is released
ServerReaped ==
    /\ child = "exited"
    /\ child' = "reaped"
    /\ ret' = NoRet
    /\ UNCHANGED <<impl, process, request_id, is_connected, pc, op, request,
                   stdin, sent, stdout, waited, nwrites, timedout, handshake,
                   closed, side>>

Next ==
    \/ StartServerConnected
    \/ StartServerSpawnFails
    \/ StartServerSpawn
    \/ StartServerInitialize
    \/ CallTool
    \/ ReadLine
    \/ ReadEOF
    \/ ResponseTimedOut
    \/ Tick
    \/ Cleanup
    \/ W_ConnectSpawnFails
    \/ W_Connect
    \/ W_CallTool
    \/ W_ReadLine
    \/ W_ReadEOF
    \/ W_Cleanup
    \/ W_CleanupReturns
    \/ ServerWrite
    \/ ServerExit
    \/ ServerExitMidLine
    \/ ServerReaped

Spec == Init /\ [][Next]_vars

\* ---------------------------------- calls on a client that is connected
\* a standalone or interactive client whose start_server() has just returned
\* after initialize read a reply
CallInit ==
    /\ impl \in Timed
    /\ process = "Process"
    /\ child = "running"
    /\ request_id = NextRequestId(1)
    /\ is_connected = (impl = "interactive")
    /\ pc = "idle"
    /\ op = "none"
    /\ request = NoRequest
    /\ stdin = <<InitRequest(1)>>
    /\ sent = <<1>>
    /\ stdout = <<>>
    /\ waited = 0
    /\ \E r \in Results :
         ret = [op |-> "start_server", id |-> 1, kind |-> "return",
                value |-> None,
                entry |-> [line |-> ObjectLine([id |-> 1, result |-> r]),
                           late |-> FALSE]]
    /\ nwrites = 1
    /\ timedout = {}
    /\ handshake = "ok"
    /\ closed = FALSE
    /\ stderr = <<>>
    /\ monitor = "none"
    /\ log = <<>>
    /\ nerr = 0
    /\ calls = NoCalls
    /\ ApartInit

CallNext ==
    \/ CallTool
    \/ ReadLine
    \/ ReadEOF
    \/ ResponseTimedOut
    \/ Tick
    \/ Cleanup
    \/ ServerWrite
    \/ ServerExit
    \/ ServerExitMidLine
    \/ ServerReaped

\* The calls of a connected client under the event loop, which resumes a
\* pending wait_for(readline()) when a line or EOF is there or its timer
\* fires; the caller and the child are free to do nothing.
CallFairSpec ==
    /\ CallInit
    /\ [][CallNext]_vars
    /\ WF_vars(ReadLine)
    /\ WF_vars(ReadEOF)
    /\ WF_vars(Tick)
    /\ WF_vars(ResponseTimedOut)

\* ------------------------------------------------- the stderr monitor task
\* what the child may write to its stderr: a message, a message that begins
\* with "[UTIL-LOG]", an empty line, bytes that are not UTF-8
StderrLines == {[kind |-> "text"], [kind |-> "util_log"], [kind |-> "blank"],
                [kind |-> "undecodable"]}

\* start_server creates the _monitor_stderr task; connect creates none
HasMonitor(i) == i \in Timed

\* _monitor_stderr: line.decode() raises on bytes that are not UTF-8
MonitorRaises(line) == line.kind = "undecodable"

\* _monitor_stderr: the test that guards print()
MonitorPrints(i, line) ==
    IF i = "standalone" THEN line.kind \in {"text", "util_log"}
    ELSE line.kind = "text"

\* start_server / connect: the child is spawned with stderr=PIPE and, in the
\* standalone and interactive clients, the monitor task is created
MonitorStart ==
    /\ process = "None"
    /\ pc = "idle"
    /\ process' = "Process"
    /\ child' = "running"
    /\ monitor' = IF HasMonitor(impl) THEN "running" ELSE "none"
    /\ stderr' = <<>>
    /\ ret' = NoRet
    /\ UNCHANGED <<impl, request_id, is_connected, pc, op, request, stdin, sent,
                   stdout, waited, nwrites, timedout, handshake, closed, log,
                   nerr, calls, apart>>

\* the child writes one line to its stderr
ChildWritesStderr ==
    /\ child = "running"
    /\ nerr < MaxErr
    /\ \E l \in StderrLines : stderr' = Append(stderr, l)
    /\ nerr' = nerr + 1
    /\ ret' = NoRet
    /\ UNCHANGED <<impl, process, child, request_id, is_connected, pc, op,
                   request, stdin, sent, stdout, waited, nwrites, timedout,
                   handshake, closed, monitor, log, calls, apart>>

\* _monitor_stderr: one turn of the loop on a line read
MonitorReads ==
    /\ monitor = "running"
    /\ stderr # <<>>
    /\ stderr' = Tail(stderr)
    /\ IF MonitorRaises(Head(stderr))
       THEN monitor' = "ended" /\ log' = log       \* except Exception: break
       ELSE /\ monitor' = monitor
            /\ log' = IF MonitorPrints(impl, Head(stderr))
                      THEN Append(log, Head(stderr)) ELSE log
    /\ ret' = NoRet
    /\ UNCHANGED <<impl, process, child, request_id, is_connected, pc, op,
                   request, stdin, sent, stdout, waited, nwrites, timedout,
                   handshake, closed, nerr, calls, apart>>

\* _monitor_stderr: readline() returns b"" at the end of the stream: break
MonitorEOF ==
    /\ monitor = "running"
    /\ stderr = <<>>
    /\ Exited
    /\ monitor' = "ended"
    /\ ret' = NoRet
    /\ UNCHANGED <<impl, process, child, request_id, is_connected, pc, op,
                   request, stdin, sent, stdout, waited, nwrites, timedout,
                   handshake, closed, stderr, log, nerr, calls, apart>>

MonitorNext ==
    \/ MonitorStart
    \/ ChildWritesStderr
    \/ MonitorReads
    \/ MonitorEOF
    \/ ServerExit
    \/ ServerReaped
    \/ Cleanup

\* a client, its child's stderr and the task that reads it
MonitorSpec == Init /\ [][MonitorNext]_vars

\* ------------------------------- concurrent callers of one wrapper client
\* a wrapper client whose connect() has just returned after a handshake reply
ConcInit ==
    /\ impl = "wrapper"
    /\ process = "Process"
    /\ child = "running"
    /\ request_id = 1
    /\ is_connected = FALSE
    /\ pc = "idle"
    /\ op = "none"
    /\ request = NoRequest
    /\ stdin = <<W_InitRequest>>
    /\ sent = <<W_InitRequest.id>>
    /\ stdout = <<>>
    /\ waited = 0
    /\ \E r \in Results :
         ret = [op |-> "connect", id |-> W_InitRequest.id, kind |-> "return",
                value |-> None,
                entry |-> [line |-> ObjectLine([id |-> W_InitRequest.id,
                                                result |-> r]),
                           late |-> FALSE]]
    /\ nwrites = 1
    /\ timedout = {}
    /\ handshake = "ok"
    /\ closed = FALSE
    /\ stderr = <<>>
    /\ monitor = "none"
    /\ log = <<>>
    /\ nerr = 0
    /\ calls = NoCalls
    /\ ApartInit

\* call_tool() of caller `c` has ended on the line `e`
CallGot(c, k, e) ==
    [pc |-> "idle", req |-> k, got |-> e.for,
     value |-> W_CallToolRead(e.line).value]

\* another caller is suspended in readline()
OtherWaits(c) == \E d \in Callers \ {c} : calls[d].pc = "reading"

\* call_tool() of caller `c`: the request is written and drained without a
\* suspension; readline() then returns at once when a line is buffered,
\* raises RuntimeError when another coroutine is already waiting on the
\* stream (caught by call_tool), and suspends otherwise
C_CallTool(c) ==
    /\ calls[c].pc = "idle"
    /\ child = "running"
    /\ Len(stdin) <= MaxCalls
    /\ stdin' = Append(stdin, W_ToolRequest)
    /\ sent' = Append(sent, W_ToolRequest.id)
    /\ IF stdout # <<>>
       THEN /\ calls' = [calls EXCEPT
                          ![c] = CallGot(c, Len(stdin) + 1, Head(stdout))]
            /\ stdout' = Tail(stdout)
       ELSE /\ calls' = [calls EXCEPT ![c] =
                 IF OtherWaits(c)
                 THEN [pc |-> "idle", req |-> Len(stdin) + 1, got |-> 0,
                       value |-> Failure(Str("RuntimeError"))]
                 ELSE [pc |-> "reading", req |-> Len(stdin) + 1, got |-> 0,
                       value |-> None]]
            /\ UNCHANGED stdout
    /\ UNCHANGED <<impl, process, child, request_id, is_connected, pc, op,
                   request, waited, ret, nwrites, timedout, handshake, closed,
                   stderr, monitor, log, nerr, apart>>

\* the readline() of caller `c` returns the next line
C_ReadLine(c) ==
    /\ calls[c].pc = "reading"
    /\ stdout # <<>>
    /\ calls' = [calls EXCEPT ![c] = CallGot(c, calls[c].req, Head(stdout))]
    /\ stdout' = Tail(stdout)
    /\ UNCHANGED <<impl, process, child, request_id, is_connected, pc, op,
                   request, stdin, sent, waited, ret, nwrites, timedout,
                   handshake, closed, stderr, monitor, log, nerr, apart>>

\* the readline() of caller `c` returns b"": call_tool falls off its end
C_ReadEOF(c) ==
    /\ calls[c].pc = "reading"
    /\ stdout = <<>>
    /\ Exited
    /\ calls' = [calls EXCEPT ![c] = [pc |-> "idle", req |-> calls[c].req,
                                      got |-> 0,
                                      value |-> W_CallToolRead(EOF).value]]
    /\ UNCHANGED <<impl, process, child, request_id, is_connected, pc, op,
                   request, stdin, sent, stdout, waited, ret, nwrites, timedout,
                   handshake, closed, stderr, monitor, log, nerr, apart>>

\* the child answers the oldest request it has not answered yet; `for` is
\* the position on stdin of the request the line answers
C_ServerReply ==
    /\ child = "running"
    /\ nwrites < Len(stdin)
    /\ \E r \in Results :
         stdout' = Append(stdout,
             [line |-> ObjectLine([id |-> stdin[nwrites + 1].id, result |-> r]),
              late |-> FALSE, for |-> nwrites + 1])
    /\ nwrites' = nwrites + 1
    /\ UNCHANGED <<impl, process, child, request_id, is_connected, pc, op,
                   request, stdin, sent, waited, ret, timedout, handshake,
                   closed, side>>

ConcNext ==
    \/ \E c \in Callers : C_CallTool(c)
    \/ \E c \in Callers : C_ReadLine(c)
    \/ \E c \in Callers : C_ReadEOF(c)
    \/ C_ServerReply
    \/ ServerExit
    \/ ServerReaped

\* one connected wrapper client shared by the handlers of concurrent chat
\* messages of its session
ConcSpec == ConcInit /\ [][ConcNext]_vars

\* --------------------------------------------- requests as lines of JSON
\* the text of a key or of a fixed word
K(word) == <<word>>

\* d[key] of a dict
Get(d, key) ==
    d.dict[CHOOSE i \in DOMAIN d.dict : d.dict[i][1] = key][2]

\* the characters a tool argument is made of
Alphabet == {"a", "n", QUOTE, BACKSLASH, LF, EACUTE}
Texts(n) == UNION {[1..k -> Alphabet] : k \in 0..n}

\* the tools and the arguments the clients' helper methods pass to call_tool
ToolNames == {K("get-GLEIF-data"), K("get-EXIM-data"),
              K("get-CorporateRegistration-data")}
ArgumentKeys == {K("companyName"), K("cin")}
Arguments ==
    {Dict(<< <<k, Text(t)>> >>) : k \in ArgumentKeys, t \in Texts(MaxLen)}

\* clientInfo.name in the handshake of each client
ClientName(i) ==
    IF i = "standalone" THEN "PRET-Python-Standalone"
    ELSE IF i = "interactive" THEN "PRET-Interactive-Client"
    ELSE "PRET-uAgent"

\* the id of a request: the counter, or the wrapper's literal
InitializeId(i, rid) == IF i = "wrapper" THEN 1 ELSE rid
ToolCallId(i, rid) == IF i = "wrapper" THEN 2 ELSE rid

\* initialize() / _initialize_session(): the handshake request
InitializeRequest(i, rid) ==
    Dict(<< <<K("jsonrpc"), Text(K("2.0"))>>,
            <<K("id"), IntValue(InitializeId(i, rid))>>,
            <<K("method"), Text(K("initialize"))>>,
            <<K("params"),
              Dict(<< <<K("protocolVersion"), Text(K("2024-11-05"))>>,
                      <<K("capabilities"),
                        Dict(<< <<K("tools"), Dict(<<>>)>> >>)>>,
                      <<K("clientInfo"),
                        Dict(<< <<K("name"), Text(K(ClientName(i)))>>,
                                <<K("version"), Text(K("1.0.0"))>> >>)>>
                   >>)>> >>)

\* (variant: the arguments are sent as the params, the tool name is left out)
ToolCallRequestFlat(i, rid, name, arguments) ==
    Dict(<< <<K("jsonrpc"), Text(K("2.0"))>>,
            <<K("id"), IntValue(ToolCallId(i, rid))>>,
            <<K("method"), Text(K("tools/call"))>>,
            <<K("params"), arguments>> >>)

\* call_tool(tool_name, arguments): the request dict
ToolCallRequest(i, rid, name, arguments) ==
    Dict(<< <<K("jsonrpc"), Text(K("2.0"))>>,
            <<K("id"), IntValue(ToolCallId(i, rid))>>,
            <<K("method"), Text(K("tools/call"))>>,
            <<K("params"),
              Dict(<< <<K("name"), Text(name)>>,
                      <<K("arguments"), arguments>> >>)>> >>)

\* (variant: control characters are left as they are)
EscapeCharKeepsControl(c) ==
    IF c = QUOTE THEN <<BACKSLASH, QUOTE>>
    ELSE IF c = BACKSLASH THEN <<BACKSLASH, BACKSLASH>>
    ELSE IF c = EACUTE THEN <<BACKSLASH, "u00e9">>
    ELSE <<c>>

\* json.dumps, ensure_ascii=True: how one character of a str is written
EscapeChar(c) ==
    IF c = QUOTE THEN <<BACKSLASH, QUOTE>>
    ELSE IF c = BACKSLASH THEN <<BACKSLASH, BACKSLASH>>
    ELSE IF c = LF THEN <<BACKSLASH, "n">>
    ELSE IF c = EACUTE THEN <<BACKSLASH, "u00e9">>
    ELSE <<c>>

RECURSIVE EscapeText(_)
EscapeText(chars) ==
    IF chars = <<>> THEN <<>>
    ELSE EscapeChar(Head(chars)) \o EscapeText(Tail(chars))

\* json.dumps of a str
DumpText(chars) == <<QUOTE>> \o EscapeText(chars) \o <<QUOTE>>

\* the integers a request id can be, and json.dumps of one
Numbers == 0..9
DumpNumber(n) == <<ToString(n)>>

\* json.dumps with its default separators ", " and ": "
RECURSIVE json_dumps(_)
RECURSIVE DumpItems(_)
json_dumps(v) ==
    IF "text" \in DOMAIN v THEN DumpText(v.text)
    ELSE IF "int" \in DOMAIN v THEN DumpNumber(v.int)
    ELSE <<"{">> \o DumpItems(v.dict) \o <<"}">>

DumpItems(items) ==
    IF items = <<>> THEN <<>>
    ELSE DumpText(items[1][1]) \o <<":", SP>> \o json_dumps(items[1][2])
         \o (IF Len(items) > 1 THEN <<",", SP>> ELSE <<>>)
         \o DumpItems(Tail(items))

\* request_json = json.dumps(request) + '\n'; encode() changes nothing, the
\* text is ASCII
RequestLine(req) == json_dumps(req) \o <<LF>>

\* str.strip(): leading and trailing whitespace removed
RECURSIVE Strip(_)
Strip(chars) ==
    IF chars = <<>> THEN <<>>
    ELSE IF Head(chars) \in {SP, LF} THEN Strip(Tail(chars))
    ELSE IF chars[Len(chars)] \in {SP, LF}
         THEN Strip(SubSeq(chars, 1, Len(chars) - 1))
    ELSE chars

\* json.loads: a parse that failed, and one that read a value up to tokens[i]
ParseFails == [ok |-> FALSE, v |-> None, i |-> 0]
Parsed(value, next) == [ok |-> TRUE, v |-> value, i |-> next]

RECURSIVE SkipSpace(_, _)
SkipSpace(ts, i) ==
    IF i <= Len(ts) /\ ts[i] \in {SP, LF} THEN SkipSpace(ts, i + 1) ELSE i

\* the character an escape sequence stands for
Unescape(e) ==
    IF e = "n" THEN LF ELSE IF e = "u00e9" THEN EACUTE ELSE e

\* the inside of a string, from tokens[i] to its closing quote
RECURSIVE ParseChars(_, _, _)
ParseChars(ts, i, acc) ==
    IF i > Len(ts) THEN ParseFails
    ELSE IF ts[i] = QUOTE THEN Parsed(acc, i + 1)
    ELSE IF ts[i] = LF THEN ParseFails       \* a raw control character
    ELSE IF ts[i] = BACKSLASH
         THEN IF i + 1 <= Len(ts)
                 /\ ts[i + 1] \in {QUOTE, BACKSLASH, "n", "u00e9"}
              THEN ParseChars(ts, i + 2, Append(acc, Unescape(ts[i + 1])))
              ELSE ParseFails
    ELSE ParseChars(ts, i + 1, Append(acc, ts[i]))

RECURSIVE ParseValue(_, _)
RECURSIVE ParseMembers(_, _, _)
ParseValue(ts, i0) ==
    LET i == SkipSpace(ts, i0) IN
    IF i > Len(ts) THEN ParseFails
    ELSE IF ts[i] = QUOTE
         THEN LET r == ParseChars(ts, i + 1, <<>>) IN
              IF r.ok THEN Parsed(Text(r.v), r.i) ELSE ParseFails
    ELSE IF ts[i] = "{" THEN ParseMembers(ts, i + 1, <<>>)
    ELSE IF \E n \in Numbers : DumpNumber(n) = <<ts[i]>>
         THEN Parsed(IntValue(CHOOSE n \in Numbers : DumpNumber(n) = <<ts[i]>>),
                     i + 1)
    ELSE ParseFails

\* the members of an object after its "{" or after a ","
ParseMembers(ts, i0, acc) ==
    LET i == SkipSpace(ts, i0) IN
    IF i > Len(ts) THEN ParseFails
    ELSE IF ts[i] = "}" /\ acc = <<>> THEN Parsed(Dict(acc), i + 1)
    ELSE IF ts[i] # QUOTE THEN ParseFails
    ELSE LET key == ParseChars(ts, i + 1, <<>>) IN
         IF ~key.ok THEN ParseFails
         ELSE LET j == SkipSpace(ts, key.i) IN
              IF j > Len(ts) \/ ts[j] # ":" THEN ParseFails
              ELSE LET val == ParseValue(ts, j + 1) IN
                   IF ~val.ok THEN ParseFails
                   ELSE LET m == SkipSpace(ts, val.i)
                            all == Append(acc, <<key.v, val.v>>) IN
                        IF m > Len(ts) THEN ParseFails
                        ELSE IF ts[m] = "," THEN ParseMembers(ts, m + 1, all)
                        ELSE IF ts[m] = "}" THEN Parsed(Dict(all), m + 1)
                        ELSE ParseFails

\* json.loads(text): one value and nothing after it
json_loads_text(ts) ==
    LET r == ParseValue(ts, 1) IN
    IF r.ok /\ SkipSpace(ts, r.i) > Len(ts) THEN r ELSE ParseFails

\* the line as its reader parses it: json.loads(line.decode().strip())
ParseLine(line) == json_loads_text(Strip(line))

\* a client is started: its child is there to be written to
Wire_Start ==
    /\ wire.pc = "off"
    /\ \E i \in Impls :
         wire' = [NoWire EXCEPT !.pc = "idle", !.impl = i,
                                !.request_id = IF i \in Timed THEN 1 ELSE 0]
    /\ UNCHANGED <<client, stderr, monitor, log, nerr, calls, agentvars, extra>>

\* initialize() / _initialize_session(): the handshake is written
Wire_Initialize ==
    /\ wire.pc = "idle"
    /\ wire.nlines = 0
    /\ LET req == InitializeRequest(wire.impl, wire.request_id) IN
         wire' = [wire EXCEPT
                    !.pc = "reading",
                    !.request = req,
                    !.line = RequestLine(req),
                    !.nlines = @ + 1,
                    !.request_id = IF wire.impl \in Timed
                                   THEN NextRequestId(@) ELSE @]
    /\ UNCHANGED <<client, stderr, monitor, log, nerr, calls, agentvars, extra>>

\* call_tool(tool_name, arguments) on a started client: the request is built,
\* serialised and written
Wire_CallTool ==
    /\ wire.pc = "idle"
    /\ wire.nlines >= 1
    /\ wire.nlines < MaxLines
    /\ \E name \in ToolNames, arguments \in Arguments :
         LET req == ToolCallRequest(wire.impl, wire.request_id, name,
                                    arguments) IN
         wire' = [wire EXCEPT
                    !.pc = "reading",
                    !.name = name,
                    !.arguments = arguments,
                    !.request = req,
                    !.line = RequestLine(req),
                    !.nlines = @ + 1,
                    !.ncalls = @ + 1,
                    !.request_id = IF wire.impl \in Timed
                                   THEN NextRequestId(@) ELSE @]
    /\ UNCHANGED <<client, stderr, monitor, log, nerr, calls, agentvars, extra>>

\* the readline() that follows the write returns, and the operation ends:
\* its request and its line are no more
Wire_ReadLine ==
    /\ wire.pc = "reading"
    /\ wire' = [wire EXCEPT !.pc = "idle", !.nreads = @ + 1,
                            !.request = None, !.line = <<>>,
                            !.name = <<>>, !.arguments = None]
    /\ UNCHANGED <<client, stderr, monitor, log, nerr, calls, agentvars, extra>>

WireNext ==
    \/ Wire_Start
    \/ Wire_Initialize
    \/ Wire_CallTool
    \/ Wire_ReadLine

\* the requests of one session, from the dict to the bytes on the child's stdin
WireSpec == Init /\ [][WireNext]_vars

\* ------------------------------------------ the agent and its sessions
Event(kind, s, c) == [kind |-> kind, sid |-> s, client |-> c]

\* the sessions that have a client in session_clients
Stored == {s \in Sessions : session_clients[s] # 0}

\* handle_chat_message, TextContent: the session's activity is noted, and
\* get_pret_client finds the session's client or makes one and awaits its
\* connect()
H_Text(h, s) ==
    /\ handlers[h].pc = "idle"
    /\ shutdown.pc = "no"
    /\ user_sessions' = [user_sessions EXCEPT ![s] = now]
    /\ \/ /\ session_clients[s] # 0
          /\ handlers' = [handlers EXCEPT ![h] =
                 [pc |-> "querying", sid |-> s, client |-> session_clients[s]]]
          /\ event' = Event("found", s, session_clients[s])
          /\ UNCHANGED procs
       \/ /\ session_clients[s] = 0
          /\ Len(procs) < MaxProcs
          /\ procs' = Append(procs, NewProc(s))
          /\ handlers' = [handlers EXCEPT ![h] =
                 [pc |-> "connecting", sid |-> s, client |-> Len(procs) + 1]]
          /\ event' = Event("spawned", s, Len(procs) + 1)
       \/ /\ session_clients[s] = 0       \* create_subprocess_exec raises
          /\ event' = Event("failed", s, 0)
          /\ UNCHANGED <<procs, handlers>>
    /\ UNCHANGED <<client, stderr, monitor, log, nerr, calls, wire, extra, now,
                   session_clients, shutdown>>

\* get_pret_client: connect() has returned, the client is stored
H_ConnectOk(h) ==
    /\ handlers[h].pc = "connecting"
    /\ session_clients' =
         [session_clients EXCEPT ![handlers[h].sid] = handlers[h].client]
    /\ handlers' = [handlers EXCEPT ![h].pc = "querying"]
    /\ event' = Event("stored", handlers[h].sid, handlers[h].client)
    /\ UNCHANGED <<client, stderr, monitor, log, nerr, calls, wire, extra, now,
                   user_sessions, procs, shutdown>>

\* (variant: the client is stored before its connect() is awaited)
H_ConnectFailsStores(h) ==
    /\ handlers[h].pc = "connecting"
    /\ handlers' = [handlers EXCEPT ![h] = IdleHandler]
    /\ session_clients' =
         [session_clients EXCEPT ![handlers[h].sid] = handlers[h].client]
    /\ event' = Event("failed", handlers[h].sid, handlers[h].client)
    /\ UNCHANGED <<client, stderr, monitor, log, nerr, calls, wire, extra, now,
                   user_sessions, procs, shutdown>>

\* get_pret_client: connect() has raised after the spawn; the error is
\* logged, None is returned and the handler answers that it is sorry
H_ConnectFails(h) ==
    /\ handlers[h].pc = "connecting"
    /\ handlers' = [handlers EXCEPT ![h] = IdleHandler]
    /\ event' = Event("failed", handlers[h].sid, handlers[h].client)
    /\ UNCHANGED <<client, stderr, monitor, log, nerr, calls, wire, extra, now,
                   session_clients, user_sessions, procs, shutdown>>

\* process_compliance_query (or the help text) is done and the answer sent
H_QueryDone(h) ==
    /\ handlers[h].pc = "querying"
    /\ handlers' = [handlers EXCEPT ![h] = IdleHandler]
    /\ event' = NoEvent
    /\ UNCHANGED <<client, stderr, monitor, log, nerr, calls, wire, extra, now,
                   session_clients, user_sessions, procs, shutdown>>

\* handle_chat_message, EndSessionContent: cleanup() of the session's client
\* closes the child's stdin and awaits its exit; without a client only the
\* user_sessions entry goes
H_End(h, s) ==
    /\ handlers[h].pc = "idle"
    /\ shutdown.pc = "no"
    /\ \/ /\ session_clients[s] # 0
          /\ procs' = [procs EXCEPT ![session_clients[s]].asked = TRUE]
          /\ handlers' = [handlers EXCEPT ![h] =
                 [pc |-> "cleaning", sid |-> s, client |-> session_clients[s]]]
          /\ event' = NoEvent
          /\ UNCHANGED user_sessions
       \/ /\ session_clients[s] = 0
          /\ user_sessions' = [user_sessions EXCEPT ![s] = NoActivity]
          /\ event' = Event("ended", s, 0)
          /\ UNCHANGED <<procs, handlers>>
    /\ UNCHANGED <<client, stderr, monitor, log, nerr, calls, wire, extra, now,
                   session_clients, shutdown>>

\* (variant: the del of the session_clients entry is forgotten)
H_EndDoneLeavesClient(h) ==
    /\ handlers[h].pc = "cleaning"
    /\ procs[handlers[h].client].state = "exited"
    /\ procs' = [procs EXCEPT ![handlers[h].client].cleaned = TRUE]
    /\ handlers' = [handlers EXCEPT ![h] = IdleHandler]
    /\ user_sessions' = [user_sessions EXCEPT ![handlers[h].sid] = NoActivity]
    /\ event' = Event("ended", handlers[h].sid, handlers[h].client)
    /\ UNCHANGED <<client, stderr, monitor, log, nerr, calls, wire, extra, now,
                   session_clients, shutdown>>

\* EndSessionContent: cleanup() has returned; del session_clients[session_id],
\* which raises KeyError when the entry has gone meanwhile, then the del of
\* the user_sessions entry
H_EndDone(h) ==
    /\ handlers[h].pc = "cleaning"
    /\ procs[handlers[h].client].state = "exited"
    /\ procs' = [procs EXCEPT ![handlers[h].client].cleaned = TRUE]
    /\ handlers' = [handlers EXCEPT ![h] = IdleHandler]
    /\ \/ /\ session_clients[handlers[h].sid] # 0
          /\ session_clients' =
               [session_clients EXCEPT ![handlers[h].sid] = 0]
          /\ user_sessions' = [user_sessions EXCEPT ![handlers[h].sid] = NoActivity]
          /\ event' = Event("ended", handlers[h].sid, handlers[h].client)
       \/ /\ session_clients[handlers[h].sid] = 0
          /\ event' = Event("raised", handlers[h].sid, handlers[h].client)
          /\ UNCHANGED <<session_clients, user_sessions>>
    /\ UNCHANGED <<client, stderr, monitor, log, nerr, calls, wire, extra, now, shutdown>>

\* a child of the agent exits: its stdin was closed, or it crashed
ProcExit(p) ==
    /\ p \in DOMAIN procs
    /\ procs[p].state = "running"
    /\ procs' = [procs EXCEPT ![p].state = "exited"]
    /\ event' = NoEvent
    /\ UNCHANGED <<client, stderr, monitor, log, nerr, calls, wire, extra, now,
                   session_clients, user_sessions, handlers, shutdown>>

\* on_shutdown: the loop over session_clients.values() begins
ShutdownStart ==
    /\ shutdown.pc = "no"
    /\ shutdown' = [NoShutdown EXCEPT
                      !.pc = "iterating",
                      !.todo = {session_clients[s] : s \in Stored},
                      !.size = Cardinality(Stored)]
    /\ event' = NoEvent
    /\ UNCHANGED <<client, stderr, monitor, log, nerr, calls, wire, extra, now,
                   session_clients, user_sessions, procs, handlers>>

\* on_shutdown: the loop takes its next client and awaits its cleanup(); it
\* ends when no client is left, and by a RuntimeError when the dict has
\* changed its size since the loop began
ShutdownNext ==
    /\ shutdown.pc = "iterating"
    /\ event' = NoEvent
    /\ \/ /\ Cardinality(Stored) # shutdown.size
          /\ shutdown' = [shutdown EXCEPT !.pc = "done", !.raised = TRUE]
          /\ UNCHANGED procs
       \/ /\ Cardinality(Stored) = shutdown.size
          /\ shutdown.todo = {}
          /\ shutdown' = [shutdown EXCEPT !.pc = "done"]
          /\ UNCHANGED procs
       \/ /\ Cardinality(Stored) = shutdown.size
          /\ \E c \in shutdown.todo :
               /\ procs' = [procs EXCEPT ![c].asked = TRUE]
               /\ shutdown' = [shutdown EXCEPT !.pc = "waiting", !.cur = c]
    /\ UNCHANGED <<client, stderr, monitor, log, nerr, calls, wire, extra, now,
                   session_clients, user_sessions, handlers>>

\* on_shutdown: the cleanup() it awaits has returned
ShutdownCleaned ==
    /\ shutdown.pc = "waiting"
    /\ procs[shutdown.cur].state = "exited"
    /\ procs' = [procs EXCEPT ![shutdown.cur].cleaned = TRUE]
    /\ shutdown' = [shutdown EXCEPT !.pc = "iterating",
                                    !.todo = @ \ {shutdown.cur}, !.cur = 0]
    /\ event' = NoEvent
    /\ UNCHANGED <<client, stderr, monitor, log, nerr, calls, wire, extra, now,
                   session_clients, user_sessions, handlers>>

AgentNext ==
    \/ \E h \in Handlers, s \in Sessions : H_Text(h, s)
    \/ \E h \in Handlers : H_ConnectOk(h)
    \/ \E h \in Handlers : H_ConnectFails(h)
    \/ \E h \in Handlers : H_QueryDone(h)
    \/ \E h \in Handlers, s \in Sessions : H_End(h, s)
    \/ \E h \in Handlers : H_EndDone(h)
    \/ \E p \in 1..MaxProcs : ProcExit(p)
    \/ ShutdownStart
    \/ ShutdownNext
    \/ ShutdownCleaned

\* the agent: chat messages of its sessions handled by coroutines that
\* interleave at their awaits, the children of its clients, and on_shutdown
AgentSpec == Init /\ [][AgentNext]_vars

\* --------------------------------------------------- routing of a query
\* A query is its words, separated by single spaces. The words are one for
\* each class the keyword tests and the three patterns of
\* _extract_company_name and the pattern of _extract_cin tell apart.
MaxWords == 3

CIN == "U01112TZ2022PTC039493"
Words == {"gleif", "exim", "cin", "for", "ACME", "acme", "LTD", "'acme'", CIN}
Queries == UNION {[1..n -> Words] : n \in 1..MaxWords}

\* str.lower() of a word
Lower(w) ==
    CASE w = "ACME" -> "acme"
      [] w = "LTD" -> "ltd"
      [] w = "GLEIF" -> "gleif"
      [] w = CIN -> "u01112tz2022ptc039493"
      [] OTHER -> w

GleifKeywords == {"gleif", "lei", "legal entity", "entity identifier"}
EximKeywords == {"exim", "export", "import", "trade", "customs"}
CorporateKeywords == {"corporate", "registration", "cin",
                      "company registration"}

\* keyword in word, for the lowered words of a query: the pairs
\* <<keyword, word>> with the keyword a substring of the word
Occurs ==
    {<<"gleif", "gleif">>, <<"lei", "gleif">>, <<"exim", "exim">>,
     <<"cin", "cin">>}

\* any(keyword in query_lower for keyword in keywords); no keyword with a
\* space in it is made of these words
AnyKeyword(keywords, q) ==
    \E i \in DOMAIN q : \E k \in keywords : <<k, Lower(q[i])>> \in Occurs

\* the least of the indexes at which a pattern matches, 0 when there is none
First(indexes) ==
    IF indexes = {} THEN 0
    ELSE CHOOSE i \in indexes : \A j \in indexes : i <= j

\* words in quotes, and what is between the quotes
QuotedWords == {"'acme'"}
Unquoted(w) == IF w = "'acme'" THEN "acme" ELSE w
\* words of two or more capital letters
UpperWords == {"ACME", "LTD", "GLEIF"}
\* words of letters only
LetterWords == {"gleif", "exim", "cin", "for", "ACME", "acme", "LTD",
                "GLEIF", "data", "U"}
\* words that are LIMITED, LTD, PRIVATE, PVT, COMPANY, CO, CORP, CORPORATION,
\* INC or LLC, in either case; no other word here has one of them inside
SuffixWords == {"LTD"}

\* the letters word i of q begins with, when the word is not of letters only
LettersAt(q, i) == IF i \in DOMAIN q /\ q[i] = CIN THEN <<"U">> ELSE <<>>

\* _extract_company_name(query): the name's words, <<>> for None and for ""
_extract_company_name(q) ==
    LET quoted == First({i \in DOMAIN q : q[i] \in QuotedWords})
        for == First({i \in DOMAIN q : /\ q[i] = "for"
                                        /\ i < Len(q)
                                        /\ q[i + 1] \in UpperWords})
        \* the match begins at the first word from which one letter, then
        \* letters and spaces lead to a suffix, and is greedy to the right
        from == First({a \in DOMAIN q :
                         \E i \in (a + 1)..Len(q) :
                             /\ q[i] \in SuffixWords
                             /\ \A j \in a..i : q[j] \in LetterWords})
        to == CHOOSE b \in from..Len(q) :
                /\ \A j \in from..b : q[j] \in LetterWords
                /\ \A c \in (b + 1)..Len(q) :
                     \E j \in from..c : q[j] \notin LetterWords
    IN  IF quoted # 0 THEN <<Unquoted(q[quoted])>>
        ELSE IF for # 0 THEN <<q[for + 1]>>
        ELSE IF from # 0 THEN SubSeq(q, from, to) \o LettersAt(q, to + 1)
        ELSE <<>>

\* _extract_cin(query)
_extract_cin(q) ==
    LET cin == First({i \in DOMAIN q : q[i] = CIN})
    IN  IF cin # 0 THEN <<q[cin]>> ELSE <<>>

\* what call_tool gives the handler: a dict with success True, a dict with
\* success False, or None when the child's stdout is at its end
CallResults == {"success", "failure", "None"}

\* (variant: the handler without its try: the TypeError leaves it)
ReplyUncaught(result) ==
    CASE result = "success" -> "formatted"
      [] result = "failure" -> "failed"
      [] result = "None" -> "raise"

\* the handler's return after the tool call; result["success"] of None
\* raises TypeError inside the handler's try
Reply(result) ==
    CASE result = "success" -> "formatted"
      [] result = "failure" -> "failed"
      [] result = "None" -> "service error"

Answer(tool, name, reply) ==
    [route |-> "none", tool |-> tool, name |-> name, reply |-> reply]

_handle_gleif_query(q, result) ==
    LET company_name == _extract_company_name(q)
    IN  IF company_name = <<>> THEN Answer("none", <<>>, "prompt")
        ELSE Answer("get-GLEIF-data", company_name, Reply(result))

_handle_exim_query(q, result) ==
    LET company_name == _extract_company_name(q)
    IN  IF company_name = <<>> THEN Answer("none", <<>>, "prompt")
        ELSE Answer("get-EXIM-data", company_name, Reply(result))

_handle_corporate_query(q, result) ==
    LET cin == _extract_cin(q)
    IN  IF cin = <<>> THEN Answer("none", <<>>, "prompt")
        ELSE Answer("get-CorporateRegistration-data", cin, Reply(result))

_handle_general_query(q, result) ==
    LET company_name == _extract_company_name(q)
    IN  IF company_name # <<>>
        THEN _handle_gleif_query(<<"GLEIF", "data", "for">> \o company_name,
                                 result)
        ELSE Answer("none", <<>>, "help")

process_compliance_query(q, result) ==
    IF AnyKeyword(GleifKeywords, q)
    THEN [_handle_gleif_query(q, result) EXCEPT !.route = "gleif"]
    ELSE IF AnyKeyword(EximKeywords, q)
    THEN [_handle_exim_query(q, result) EXCEPT !.route = "exim"]
    ELSE IF AnyKeyword(CorporateKeywords, q)
    THEN [_handle_corporate_query(q, result) EXCEPT !.route = "corporate"]
    ELSE [_handle_general_query(q, result) EXCEPT !.route = "general"]

\* one call of process_compliance_query
ProcessComplianceQuery ==
    /\ answer = NoAnswer
    /\ \E q \in Queries : \E result \in CallResults :
         /\ query' = q
         /\ answer' = process_compliance_query(q, result)
    /\ UNCHANGED <<client, stderr, monitor, log, nerr, calls, wire, agentvars,
                   chatting, driver>>

\* the caller has the reply
QueryAnswered ==
    /\ answer # NoAnswer
    /\ query' = <<>>
    /\ answer' = NoAnswer
    /\ UNCHANGED <<client, stderr, monitor, log, nerr, calls, wire, agentvars,
                   chatting, driver>>

QueryNext == ProcessComplianceQuery \/ QueryAnswered

QuerySpec == Init /\ [][QueryNext]_vars

\* --------------------------------------------------- one chat message
\* items of msg.content in one message
MaxItems == 2

\* TextContent, EndSessionContent, StartSessionContent
Items == {"text", "end", "start"}
Contents == UNION {[1..n -> Items] : n \in 1..MaxItems}

\* item.text: a request for help (one of 'help', 'what can you do',
\* 'commands', 'services' is in it), or a query
ChatTexts == {"help", "query"}

\* what process_compliance_query(item.text) can do and return, over the
\* queries and the results of the tool call
ChatAnswers ==
    {[tool |-> a.tool, reply |-> a.reply] :
        a \in {process_compliance_query(q, result) :
                  q \in Queries, result \in CallResults}}

Did(kind, item, text) == [kind |-> kind, item |-> item, text |-> text]

\* the handler is called with a message; the session has a stored client
\* or has none
Chat_Receive ==
    /\ chat.pc = "idle"
    /\ \E content \in Contents : \E stored \in BOOLEAN :
         chat' = [NoChat EXCEPT !.pc = "ack", !.content = content,
                                !.stored = stored]
    /\ trace' = <<>>
    /\ UNCHANGED <<client, stderr, monitor, log, nerr, calls, wire, agentvars,
                   routing, driver>>

\* (variant: the loop over the items begins without the acknowledgement)
Chat_AckNotSent ==
    /\ chat.pc = "ack"
    /\ chat' = [chat EXCEPT !.pc = "item", !.item = 1]
    /\ UNCHANGED trace
    /\ UNCHANGED <<client, stderr, monitor, log, nerr, calls, wire, agentvars,
                   routing, driver>>

\* await ctx.send(sender, ack_msg): sent, or the send raises and the handler
\* ends
Chat_Ack ==
    /\ chat.pc = "ack"
    /\ \/ /\ trace' = Append(trace, Did("ack", 0, "none"))
          /\ chat' = [chat EXCEPT !.pc = "item", !.item = 1]
       \/ /\ chat' = [chat EXCEPT !.pc = "raised", !.cause = "send"]
          /\ UNCHANGED trace
    /\ UNCHANGED <<client, stderr, monitor, log, nerr, calls, wire, agentvars,
                   routing, driver>>

\* a TextContent item: get_pret_client returns the stored client, or
\* constructs one whose connect() succeeds or fails
Chat_GetClient ==
    /\ chat.pc = "item"
    /\ chat.item <= Len(chat.content)
    /\ chat.content[chat.item] = "text"
    /\ \/ /\ chat.stored
          /\ chat' = [chat EXCEPT !.pc = "process"]
          /\ UNCHANGED trace
       \/ /\ ~chat.stored
          /\ chat' = [chat EXCEPT !.pc = "process", !.stored = TRUE]
          /\ trace' = Append(trace, Did("client", chat.item, "none"))
       \/ /\ ~chat.stored
          /\ chat' = [chat EXCEPT !.pc = "respond", !.text = "sorry"]
          /\ trace' = Append(trace, Did("client", chat.item, "none"))
    /\ UNCHANGED <<client, stderr, monitor, log, nerr, calls, wire, agentvars,
                   routing, driver>>

\* with a client: the help text, or process_compliance_query(item.text)
Chat_Process ==
    /\ chat.pc = "process"
    /\ \E text \in ChatTexts : \E reply \in ChatAnswers :
         LET called == IF reply.tool = "none" THEN <<>>
                       ELSE <<Did("tool", chat.item, reply.tool)>>
         IN  IF text = "help"
             THEN /\ chat' = [chat EXCEPT !.pc = "respond", !.text = "help"]
                  /\ UNCHANGED trace
             ELSE IF reply.reply = "raise"
             THEN /\ chat' = [chat EXCEPT !.pc = "raised", !.cause = "query"]
                  /\ trace' = trace \o called
             ELSE /\ chat' = [chat EXCEPT !.pc = "respond",
                                          !.text = reply.reply]
                  /\ trace' = trace \o called
    /\ UNCHANGED <<client, stderr, monitor, log, nerr, calls, wire, agentvars,
                   routing, driver>>

\* await ctx.send(sender, response_msg)
Chat_Respond ==
    /\ chat.pc = "respond"
    /\ \/ /\ trace' = Append(trace, Did("response", chat.item, chat.text))
          /\ chat' = [chat EXCEPT !.pc = "item", !.item = @ + 1,
                                  !.text = "none"]
       \/ /\ chat' = [chat EXCEPT !.pc = "raised", !.cause = "send"]
          /\ UNCHANGED trace
    /\ UNCHANGED <<client, stderr, monitor, log, nerr, calls, wire, agentvars,
                   routing, driver>>

\* an EndSessionContent item: the stored client, if any, is cleaned up and
\* deleted
Chat_End ==
    /\ chat.pc = "item"
    /\ chat.item <= Len(chat.content)
    /\ chat.content[chat.item] = "end"
    /\ chat' = [chat EXCEPT !.item = @ + 1, !.stored = FALSE]
    /\ UNCHANGED trace
    /\ UNCHANGED <<client, stderr, monitor, log, nerr, calls, wire, agentvars,
                   routing, driver>>

\* a StartSessionContent item: await ctx.send(sender, welcome_msg)
Chat_Start ==
    /\ chat.pc = "item"
    /\ chat.item <= Len(chat.content)
    /\ chat.content[chat.item] = "start"
    /\ \/ /\ trace' = Append(trace, Did("welcome", chat.item, "none"))
          /\ chat' = [chat EXCEPT !.item = @ + 1]
       \/ /\ chat' = [chat EXCEPT !.pc = "raised", !.cause = "send"]
          /\ UNCHANGED trace
    /\ UNCHANGED <<client, stderr, monitor, log, nerr, calls, wire, agentvars,
                   routing, driver>>

\* the loop is over: the handler returns
Chat_Return ==
    /\ chat.pc = "item"
    /\ chat.item > Len(chat.content)
    /\ chat' = [chat EXCEPT !.pc = "done"]
    /\ UNCHANGED trace
    /\ UNCHANGED <<client, stderr, monitor, log, nerr, calls, wire, agentvars,
                   routing, driver>>

\* the next message
Chat_Next ==
    /\ chat.pc \in {"done", "raised"}
    /\ chat' = NoChat
    /\ trace' = <<>>
    /\ UNCHANGED <<client, stderr, monitor, log, nerr, calls, wire, agentvars,
                   routing, driver>>

ChatNext ==
    \/ Chat_Receive
    \/ Chat_Ack
    \/ Chat_GetClient
    \/ Chat_Process
    \/ Chat_Respond
    \/ Chat_End
    \/ Chat_Start
    \/ Chat_Return
    \/ Chat_Next

ChatSpec == Init /\ [][ChatNext]_vars

\* --------------------------------------------------- the drivers
\* test_standalone_client, interactive_menu and batch_test_mode: the client
\* is constructed, then a try block calls start_server() once and tools
\* after it has returned, and a finally block calls cleanup()
D_Construct ==
    /\ impl \in Timed
    /\ driver.pc = "none"
    /\ driver' = [pc |-> "try", how |-> "none"]
    /\ UNCHANGED <<client, stderr, monitor, log, nerr, calls, wire, agentvars,
                   routing, chatting>>

\* start_server() has raised: out of create_subprocess_exec, or later
StartServerRaised ==
    \/ ret.op = "start_server" /\ ret.kind = "raise"
    \/ handshake = "failed"

\* await client.start_server(), the first statement of the try block
D_StartServer ==
    /\ driver.pc = "try"
    /\ handshake = "none"
    /\ ~StartServerRaised
    /\ (StartServerSpawnFails \/ StartServerSpawn)

D_StartServerInitialize == driver.pc = "try" /\ StartServerInitialize

\* a tool call, after start_server() has returned
D_CallTool ==
    /\ driver.pc = "try"
    /\ handshake = "ok"
    /\ CallTool

\* the awaits of the client end
D_ReadLine == driver.pc = "try" /\ ReadLine
D_ReadEOF == driver.pc = "try" /\ ReadEOF
D_ResponseTimedOut == driver.pc = "try" /\ ResponseTimedOut
D_Tick == driver.pc = "try" /\ Tick

\* the try block is left: the finally block is next
Leave(how) ==
    /\ driver' = [pc |-> "finally", how |-> how]
    /\ UNCHANGED <<stderr, monitor, log, nerr, calls, wire, agentvars,
                   routing, chatting>>

\* (variant: a return that does not pass the finally block)
D_ReturnNoFinally ==
    /\ driver.pc = "try"
    /\ pc = "idle"
    /\ handshake = "ok"
    /\ driver' = [pc |-> "returned", how |-> "return"]
    /\ UNCHANGED <<client, stderr, monitor, log, nerr, calls, wire, agentvars,
                   routing, chatting>>

\* return True at the end of the try block, return False after a failed
\* test or an unknown mode, break out of the menu loop
D_Return ==
    /\ driver.pc = "try"
    /\ pc = "idle"
    /\ handshake = "ok"
    /\ Leave("return")
    /\ UNCHANGED client

\* start_server() raised: the except clauses, if any, then finally
D_Except ==
    /\ driver.pc = "try"
    /\ pc = "idle"
    /\ StartServerRaised
    /\ Leave("exception")
    /\ UNCHANGED client

\* KeyboardInterrupt, or the cancellation asyncio.run makes of it: the
\* await the client is at, if any, is abandoned
D_Interrupt ==
    /\ driver.pc = "try"
    /\ Leave("interrupt")
    /\ pc' = "idle"
    /\ op' = "none"
    /\ request' = NoRequest
    /\ waited' = 0
    /\ ret' = NoRet
    /\ handshake' = IF handshake = "pending" THEN "failed" ELSE handshake
    /\ UNCHANGED <<impl, process, child, request_id, is_connected, stdin,
                   sent, stdout, nwrites, timedout, closed>>

\* finally: client.cleanup()
D_Finally ==
    /\ driver.pc = "finally"
    /\ CleanupBody
    /\ driver' = [driver EXCEPT !.pc = "returned"]
    /\ UNCHANGED <<stderr, monitor, log, nerr, calls, wire, agentvars,
                   routing, chatting>>

DriverNext ==
    \/ D_Construct
    \/ D_StartServer
    \/ D_StartServerInitialize
    \/ D_CallTool
    \/ D_ReadLine
    \/ D_ReadEOF
    \/ D_ResponseTimedOut
    \/ D_Tick
    \/ D_Return
    \/ D_Except
    \/ D_Interrupt
    \/ D_Finally
    \/ ServerWrite
    \/ ServerExit
    \/ ServerExitMidLine
    \/ ServerReaped

DriverSpec == Init /\ [][DriverNext]_vars

\* --------------------------------------------------- session expiry
\* the instants the agent's clock is read at: on both sides of the timeout
\* after an activity at 0 and after one at SESSION_TIMEOUT or just after it
Instants == {0, SESSION_TIMEOUT, SESSION_TIMEOUT + 1, 2 * SESSION_TIMEOUT + 1,
             2 * SESSION_TIMEOUT + 2}

\* (variant: a session expires when its age has reached the timeout)
ExpiredAtTimeout(t, last_activity) == t - last_activity >= SESSION_TIMEOUT

\* time.time() - last_activity > SESSION_TIMEOUT
Expired(t, last_activity) == t - last_activity > SESSION_TIMEOUT

\* time passes
ClockAdvance ==
    /\ \E t \in Instants :
         /\ t > now
         /\ \A u \in Instants : u > now => t <= u
         /\ now' = t
    /\ event' = NoEvent
    /\ UNCHANGED <<client, stderr, monitor, log, nerr, calls, wire, extra,
                   session_clients, user_sessions, procs, handlers, shutdown>>

\* is_session_valid(session_id)
IsSessionValid(s) ==
    /\ \/ /\ user_sessions[s] = NoActivity
          /\ event' = Event("invalid", s, 0)
          /\ UNCHANGED user_sessions
       \/ /\ user_sessions[s] # NoActivity
          /\ Expired(now, user_sessions[s])
          /\ user_sessions' = [user_sessions EXCEPT ![s] = NoActivity]
          /\ event' = Event("invalid", s, 0)
       \/ /\ user_sessions[s] # NoActivity
          /\ ~Expired(now, user_sessions[s])
          /\ event' = Event("valid", s, 0)
          /\ UNCHANGED user_sessions
    /\ UNCHANGED <<client, stderr, monitor, log, nerr, calls, wire, extra, now,
                   session_clients, procs, handlers, shutdown>>

\* the agent handling one message at a time while time passes and
\* is_session_valid is called
SessionNext ==
    \/ \E s \in Sessions : H_Text(1, s)
    \/ H_ConnectOk(1)
    \/ H_ConnectFails(1)
    \/ H_QueryDone(1)
    \/ \E s \in Sessions : H_End(1, s)
    \/ H_EndDone(1)
    \/ \E p \in 1..MaxProcs : ProcExit(p)
    \/ ClockAdvance
    \/ \E s \in Sessions : IsSessionValid(s)

SessionSpec == Init /\ [][SessionNext]_vars

\* The event loop resumes a coroutine whose await can complete: a pending
\* readline() when a line or EOF is there, wait_for when its timer fires,
\* sleep(2) when it is over, wait() when the exit has been processed; and it
\* processes a child's exit.  The caller and the child are free to do nothing.
FairSpec ==
    /\ Spec
    /\ WF_vars(StartServerInitialize)
    /\ WF_vars(ReadLine)
    /\ WF_vars(ReadEOF)
    /\ WF_vars(Tick)
    /\ WF_vars(ResponseTimedOut)
    /\ WF_vars(W_ReadLine)
    /\ WF_vars(W_ReadEOF)
    /\ WF_vars(W_CleanupReturns)
    /\ WF_vars(ServerReaped)

\* ================================================================ properties
StrictlyIncreasing(ids) ==
    \A i, j \in DOMAIN ids : i < j => ids[i] < ids[j]

\* the {success: true, data} | {success: false, error} shape of section 4.4
IsToolResult(v) ==
    \/ DOMAIN v = {"success", "data"} /\ v.success = TRUE
    \/ DOMAIN v = {"success", "error"} /\ v.success = FALSE

\* the line the step just taken read is a JSON object
ReadObject == ret.entry.line.kind = "object"

\* C1: on a standalone or interactive client, the ids of the requests written
\* to the server are pairwise distinct and each is strictly greater than the
\* id of every request written before it, however the earlier operations ended.
C1_IdsStrictlyIncreasing ==
    impl \in Timed => StrictlyIncreasing(sent)

\* three requests were written, the second after a spawn that the first
\* call's failure had not prevented, the last after a call that timed out
C1_Witness ==
    /\ impl \in Timed
    /\ Len(sent) = MaxReq
    /\ timedout # {}
    /\ pc = "reading"

\* C2: on the wrapper's client, every request written (the handshake and each
\* tools/call) carries an id that is unique, strictly increasing, never reused.
C2_WrapperIdsStrictlyIncreasing ==
    impl = "wrapper" => StrictlyIncreasing(sent)

\* C3: a response the child writes for a request whose call has already timed
\* out is dropped: no later call_tool returns it as its result.
C3_LateResponseNeverDelivered ==
    ~ /\ impl \in Timed
      /\ ret.op = "call_tool"
      /\ ret.entry.late
      /\ "result" \in DOMAIN ret.entry.line.doc
      /\ ret.value = Success(ret.entry.line.doc.result)

\* C4: a call resolves only with a response whose id equals the id of the
\* request it wrote (all three clients).
C4_ResolvesOnlyWithOwnId ==
    (ret.op = "call_tool" /\ ReadObject) => ret.entry.line.doc.id = ret.id

\* C5: when the child writes a line that is not JSON and then a valid response
\* matching the outstanding request, the call delivers that response: it does
\* not end on the malformed line.
C5_MalformedLineSkipped ==
    ( /\ ret.op = "call_tool"
      /\ ret.entry.line = GarbageLine
      /\ stdout # <<>>
      /\ Head(stdout).line.kind = "object"
      /\ Head(stdout).line.doc.id = ret.id
      /\ "result" \in DOMAIN Head(stdout).line.doc )
    => ret.value = Success(Head(stdout).line.doc.result)

\* C6: call_tool of the standalone and interactive clients never propagates a
\* failure: whatever the child did, and also with no process, it returns
\* {success: true, data} or {success: false, error}.
C6_CallToolNeverRaises ==
    (impl \in Timed /\ ret.op = "call_tool")
    => (ret.kind = "return" /\ IsToolResult(ret.value))

\* a call_tool has ended on EOF with the failure value
C6_Witness ==
    /\ impl \in Timed
    /\ ret.op = "call_tool"
    /\ ret.entry.line = EOF
    /\ ret.value = Failure(Str("No response received"))

\* C7: the wrapper's call_tool returns {success: true, data} or
\* {success: false, error} on every path on which it returns, EOF included.
C7_WrapperCallToolShape ==
    (impl = "wrapper" /\ ret.op = "call_tool" /\ ret.kind = "return")
    => IsToolResult(ret.value)

\* C8: on the standalone and interactive clients a call whose reply carries a
\* result returns {success: true, data: result}, and a call whose reply
\* carries an error object and no result returns {success: false, error} with
\* exactly that object.
C8_ResultAndErrorPassedOn ==
    (impl \in Timed /\ ret.op = "call_tool" /\ ReadObject)
    => /\ "result" \in DOMAIN ret.entry.line.doc
            => ret.value = Success(ret.entry.line.doc.result)
       /\ ("error" \in DOMAIN ret.entry.line.doc
           /\ "result" \notin DOMAIN ret.entry.line.doc)
            => ret.value = Failure(ret.entry.line.doc.error)

\* a call_tool has returned the result of the reply to its own request
C8_Witness ==
    /\ impl \in Timed
    /\ ret.op = "call_tool"
    /\ ReadObject
    /\ ret.entry.line.doc.id = ret.id
    /\ "result" \in DOMAIN ret.entry.line.doc
    /\ ret.value = Success(ret.entry.line.doc.result)

\* C9: on the wrapper's client a reply that carries a JSON-RPC error object
\* makes call_tool fail with a value that carries that error's code and message.
C9_WrapperErrorPassedOn ==
    ( /\ impl = "wrapper"
      /\ ret.op = "call_tool"
      /\ ReadObject
      /\ "error" \in DOMAIN ret.entry.line.doc
      /\ "result" \notin DOMAIN ret.entry.line.doc )
    => ret.value = Failure(ret.entry.line.doc.error)

\* a call_tool of a standalone or interactive client ends in this step
CallToolEnds ==
    /\ impl \in Timed
    /\ op = "call_tool"
    /\ pc = "reading"
    /\ pc' = "idle"

\* C10: on the standalone and interactive clients a call to a child that does
\* not reply ends with the 'Response timeout' failure, and a call ends with
\* that failure only when the deadline (10 s, 15 s) has elapsed; no call is
\* still waiting after its deadline.
C10_TimeoutAtDeadline ==
    /\ [][(CallToolEnds /\ ret'.value = Failure(Str("Response timeout")))
            => waited >= ResponseTimeout(impl)]_vars
    /\ [][(CallToolEnds /\ stdout = <<>> /\ child = "running")
            => /\ ret'.kind = "return"
               /\ ret'.value = Failure(Str("Response timeout"))
               /\ waited >= ResponseTimeout(impl)]_vars
    /\ []((impl \in Timed /\ pc = "reading")
            => waited <= ResponseTimeout(impl))

\* an interactive client's call_tool has ended with the timeout failure
C10_Witness ==
    /\ impl = "interactive"
    /\ ret.op = "call_tool"
    /\ ret.value = Failure(Str("Response timeout"))
    /\ stdout = <<>>
    /\ child = "running"

\* the value is {success: false, error: ...}
IsFailure(v) == "success" \in DOMAIN v /\ v.success = FALSE

\* C11: on the wrapper's client every connect() and every call_tool() that
\* has written its request eventually returns, also when the child stays
\* alive and never writes a reply line.
C11_WrapperCallEventuallyReturns ==
    (impl = "wrapper" /\ pc = "reading") ~> (pc = "idle")

C13_NoCallBeforeReady ==
    /\ (op = "call_tool" /\ pc = "reading") => handshake = "ok"
    /\ (ret.op = "call_tool" /\ handshake # "ok")
         => (ret.kind = "return" /\ IsFailure(ret.value))

\* the line read is one that parses as JSON
ReadJSON == ret.entry.line.kind \in {"object", "scalar"}

\* C14: a client becomes ready (interactive: is_connected is set; wrapper:
\* connect() returns and get_pret_client stores the client) only after a
\* handshake response line has been read; when the child's stdout ends
\* before any reply the client does not become ready.
C14_ReadyOnlyAfterHandshakeReply ==
    /\ (impl = "interactive" /\ is_connected) => handshake = "ok"
    /\ (impl = "interactive" /\ ret.op = "start_server" /\ ret.id # 0
         /\ ret.kind = "return") => ReadJSON
    /\ (impl = "wrapper" /\ ret.op = "connect"
         /\ StoresClient([kind |-> ret.kind])) => ReadJSON

\* the fields of the client object
ClientFields == <<process, request_id, is_connected, closed>>

\* this step is a step of cleanup(): it returns, or it is the wrapper's
\* cleanup() going to wait()
CleanupActs == ret'.op = "cleanup" \/ (op # "cleanup" /\ op' = "cleanup")

\* cleanup() has nothing left to do: the client was never started, or the
\* step before was a cleanup(), or the wrapper's stdin is closed already
AlreadyCleaned == process = "None" \/ ret.op = "cleanup" \/ closed

\* C15: cleanup() is idempotent in all three clients: it never raises, and
\* on a client that was never started or is already cleaned up it leaves the
\* client and its child as they are.
C15_CleanupIdempotent ==
    [][CleanupActs
        => /\ ret'.kind \in {"none", "return"}
           /\ AlreadyCleaned
                => (ClientFields' = ClientFields /\ child' = child)]_vars

\* an interactive client whose earlier cleanup() had terminated the child
\* has run cleanup() again, after the child was reaped
C15_Witness ==
    /\ impl = "interactive"
    /\ handshake = "ok"
    /\ ~is_connected
    /\ child = "reaped"
    /\ ret.op = "cleanup"

\* C16: the wrapper's cleanup() eventually returns, whatever the child does
\* after its stdin is closed.
C16_WrapperCleanupReturns ==
    (impl = "wrapper" /\ pc = "waiting") ~> (pc = "idle")

\* the line parses as JSON and carries neither a result nor an error
NeitherResultNorError(line) ==
    \/ line.kind = "scalar"
    \/ /\ line.kind = "object"
       /\ "result" \notin DOMAIN line.doc
       /\ "error" \notin DOMAIN line.doc

\* C17: in all three clients a call_tool that read a line which parses as
\* JSON but carries neither result nor error returns {success: false} with a
\* text as its error, never {success: true}.
C17_MalformedReplyFails ==
    (ret.op = "call_tool" /\ NeitherResultNorError(ret.entry.line))
    => /\ ret.kind = "return"
       /\ IsFailure(ret.value)
       /\ DOMAIN ret.value.error = {"str"}

\* a call_tool has read an object with its own id and nothing else
C17_Witness ==
    /\ ret.op = "call_tool"
    /\ ret.entry.line = ObjectLine([id |-> ret.id])
    /\ ret.value = Failure(Str("No result or error in response"))

\* C19: on the standalone and interactive clients every read hands
\* send_request the oldest line not yet read and removes it from the stream,
\* a read given up by the timeout removes nothing, and what a read hands over
\* is a whole line, never a fragment of one.
C19_LinesInOrderOnceWhole ==
    /\ [][ReadLine => /\ ret'.entry = Head(stdout)
                      /\ stdout' = Tail(stdout)]_vars
    /\ [][ResponseTimedOut => stdout' = stdout]_vars
    /\ [][ReadLine => Head(stdout).line # PartialLine]_vars

\* C18: when call_tool invocations of several callers are in flight on one
\* wrapper client, no response is delivered to two callers and each caller
\* receives only the response to the request it wrote.
C18_EachCallerOwnResponse ==
    \A c \in Callers :
        calls[c].got # 0
        => /\ calls[c].got = calls[c].req
           /\ \A d \in Callers \ {c} : calls[d].got # calls[c].got

\* C20: every client logs every line its child writes to stderr: each line
\* read from the stream that has text is logged, and each line not yet read
\* has a monitor that is still reading.
C20_EveryStderrLineLogged ==
    /\ [][(MonitorReads /\ Head(stderr).kind # "blank")
            => log' = Append(log, Head(stderr))]_vars
    /\ []((\E k \in DOMAIN stderr : stderr[k].kind # "blank")
            => monitor = "running")

\* C21: on a standalone or interactive client whose child has exited or
\* whose cleanup() has been called, every later call_tool returns
\* {success: false}, whatever is still buffered from the child.
C21_ClosedConnectionIsFatal ==
    [][(CallToolEnds /\ request.closed)
        => (ret'.kind = "return" /\ IsFailure(ret'.value))]_vars

\* a step in which wait_for gives up on the pending request
TimesOut == impl \in Timed /\ pc = "reading" /\ pc' = "idle"
            /\ timedout' # timedout

\* C23: a call that times out is abandoned, not cancelled on the wire: the
\* timeout writes nothing to the child's stdin, does not terminate the
\* process, and leaves the id counter where it was.
C23_TimeoutOnlyAbandons ==
    [][TimesOut => /\ stdin' = stdin
                   /\ sent' = sent
                   /\ process' = process
                   /\ child' = child
                   /\ request_id' = request_id]_vars

C23_Witness ==
    /\ impl = "standalone"
    /\ ret.op = "call_tool"
    /\ ret.value = Failure(Str("Response timeout"))
    /\ ret.id \in timedout
    /\ child = "running"
    /\ process = "Process"
    /\ request_id = ret.id + 1

\* C25: start_server on a standalone or interactive client that has already
\* spawned a process never spawns over a child that is still alive.
C25_AtMostOneLiveChild ==
    [][(impl \in Timed /\ pc = "idle" /\ pc' = "sleeping")
        => child # "running"]_vars

\* C26: on the standalone and interactive clients the handshake carries id 1
\* and the k-th request written on the session carries id k.
C26_KthRequestCarriesIdK ==
    impl \in Timed => \A k \in DOMAIN stdin : stdin[k].id = k

\* the three ways a call can end
Resolved(v) == "success" \in DOMAIN v /\ v.success = TRUE
TimedOut(v) == v = Failure(Str("Response timeout"))
Failed(v) == IsFailure(v) /\ ~TimedOut(v)

\* C27: once its request line is written a call_tool ends, and ends with
\* exactly one of Resolved, Failed and TimedOut; when it has returned it is
\* no longer pending, and a line that is read is attributed to the request
\* that is pending at that moment, which is the last one written.
C27_OneTerminalOutcome ==
    /\ [][CallToolEnds =>
            /\ ret'.op = "call_tool"
            /\ ret'.kind = "return"
            /\ Cardinality({o \in {"resolved", "failed", "timedout"} :
                    \/ o = "resolved" /\ Resolved(ret'.value)
                    \/ o = "failed" /\ Failed(ret'.value)
                    \/ o = "timedout" /\ TimedOut(ret'.value)}) = 1
            /\ ret'.id = request.id
            /\ request.id = request_id - 1
            /\ op' = "none"
            /\ request' = NoRequest]_vars
    /\ (impl \in Timed /\ op = "call_tool" /\ pc = "reading") ~> (pc = "idle")

C27_Witness ==
    /\ impl = "standalone"
    /\ ret.op = "call_tool"
    /\ Resolved(ret.value)
    /\ ret.entry.line.kind = "object"
    /\ ret.id = request_id - 1
    /\ pc = "idle"
    /\ request = NoRequest

\* the line has one newline, and it is its last character
OneLine(line) ==
    /\ line # <<>>
    /\ line[Len(line)] = LF
    /\ \A k \in 1..(Len(line) - 1) : line[k] # LF

\* C24: the line a request is serialised to parses back to the same id,
\* method and params, and has exactly one newline, at its end.
C24_RequestRoundTrip ==
    wire.pc = "reading" =>
        LET parsed == ParseLine(wire.line) IN
        /\ OneLine(wire.line)
        /\ parsed.ok
        /\ \A key \in {K("id"), K("method"), K("params")} :
             Get(parsed.v, key) = Get(wire.request, key)

C24_Witness ==
    /\ wire.pc = "reading"
    /\ wire.ncalls > 0
    /\ K("companyName") \in {wire.arguments.dict[k][1] :
                                k \in DOMAIN wire.arguments.dict}
    /\ Get(wire.arguments, K("companyName")) = Text(<<LF, QUOTE>>)
    /\ ParseLine(wire.line).ok

\* C28: a call_tool(name, arguments) on a started client writes exactly one
\* request line, with method tools/call and params {name, arguments} holding
\* the two values as they were passed, and it writes before it reads.
C28_OneToolCallLine ==
    /\ [][wire'.ncalls # wire.ncalls =>
            /\ wire'.nlines = wire.nlines + 1
            /\ OneLine(wire'.line)
            /\ wire'.nreads = wire.nreads
            /\ LET parsed == ParseLine(wire'.line) IN
                 /\ parsed.ok
                 /\ Get(parsed.v, K("method")) = Text(K("tools/call"))
                 /\ Get(parsed.v, K("params"))
                      = Dict(<< <<K("name"), Text(wire'.name)>>,
                                <<K("arguments"), wire'.arguments>> >>)]_vars
    /\ [][wire'.nreads # wire.nreads =>
            /\ wire.pc = "reading"
            /\ wire.nlines = wire.nreads + 1]_vars

C28_Witness ==
    /\ wire.impl = "wrapper"
    /\ wire.pc = "reading"
    /\ wire.ncalls = 2
    /\ wire.nreads = 2
    /\ wire.name = K("get-EXIM-data")
    /\ K("cin") \in {wire.arguments.dict[k][1] :
                        k \in DOMAIN wire.arguments.dict}
    /\ Get(wire.arguments, K("cin")) = Text(<<BACKSLASH, "n">>)

\* C22: when on_shutdown has run to its end with no handler in progress,
\* every child that a client of the agent spawned and that still runs has
\* been asked to terminate, the child of a failed connect() included.
C22_ShutdownReachesEveryChild ==
    (/\ shutdown.pc = "done"
     /\ ~shutdown.raised
     /\ \A h \in Handlers : handlers[h].pc = "idle")
    => \A p \in DOMAIN procs : procs[p].state = "running" => procs[p].asked

\* the clients made for session s that are neither dropped nor removed
ClientsOf(s) ==
    {handlers[h].client :
        h \in {g \in Handlers : /\ handlers[g].pc = "connecting"
                                /\ handlers[g].sid = s}}
    \cup ({session_clients[s]} \ {0})

\* C29: get_pret_client makes at most one client, and so one child, for a
\* session, also when two messages of the session are handled at once.
C29_OneClientPerSession ==
    \A s \in Sessions : Cardinality(ClientsOf(s)) <= 1

\* C30: when an EndSessionContent has been processed, the client found for
\* the session has been cleaned up (stdin closed, child gone) and the session
\* is in neither session_clients nor user_sessions; a text message that then
\* finds no client gets one with a child of its own, spawned at that moment.
C30_EndSessionRemovesClient ==
    /\ [][event'.kind = "ended" =>
            /\ session_clients'[event'.sid] = 0
            /\ user_sessions'[event'.sid] = NoActivity
            /\ event'.client # 0 =>
                 /\ session_clients[event'.sid] # 0
                 /\ procs'[event'.client].sid = event'.sid
                 /\ procs'[event'.client].asked
                 /\ procs'[event'.client].state = "exited"]_vars
    /\ [][event'.kind = "spawned" =>
            /\ session_clients[event'.sid] = 0
            /\ event'.client \notin DOMAIN procs
            /\ procs'[event'.client] = NewProc(event'.sid)]_vars
    /\ [][event'.kind = "found" =>
            /\ session_clients[event'.sid] = event'.client
            /\ ~procs[event'.client].cleaned]_vars

C30_Witness ==
    /\ event.kind = "spawned"
    /\ shutdown.pc = "no"
    /\ session_clients[event.sid] = 0
    /\ \A h \in Handlers : handlers[h].pc = "connecting" => handlers[h].sid = event.sid
    /\ \E p \in DOMAIN procs :
         /\ procs[p].sid = event.sid
         /\ procs[p].cleaned
         /\ p < event.client

\* C37: in the interactive client is_connected is false at first, stays false
\* when start_server raises, is false after every cleanup(), and is true only
\* while the process handle is set.
C37_ConnectedOnlyUntilCleanup ==
    /\ [][(impl = "interactive" /\ ret'.op = "cleanup") => ~is_connected']_vars
    /\ [][(impl = "interactive" /\ ret'.op = "start_server"
            /\ ret'.kind = "raise") => ~is_connected']_vars
    /\ [][(impl = "interactive" /\ ~is_connected /\ is_connected')
            => (ret'.op = "start_server" /\ ret'.kind = "return"
                /\ handshake' = "ok")]_vars
    /\ [][(impl = "interactive" /\ is_connected') => process' # "None"]_vars

\* C35: a connect() that fails inside get_pret_client stores nothing and
\* None is returned, so a later message of the session, finding no client,
\* connects afresh; a client that is found is returned as it is, with no
\* spawn.
C35_FailedConnectStoresNothing ==
    /\ [][event'.kind = "failed" =>
            /\ session_clients' = session_clients
            /\ procs' = procs
            /\ \A h \in Handlers :
                 handlers[h] # handlers'[h] => handlers'[h] = IdleHandler]_vars
    /\ [][(event'.kind = "spawned" /\ session_clients[event'.sid] = 0) =>
            /\ Len(procs') = Len(procs) + 1
            /\ event'.client = Len(procs')
            /\ \E h \in Handlers :
                 handlers'[h] = [pc |-> "connecting", sid |-> event'.sid,
                                 client |-> event'.client]]_vars
    /\ [][event'.kind = "found" =>
            /\ session_clients[event'.sid] # 0
            /\ procs' = procs
            /\ session_clients' = session_clients
            /\ \E h \in Handlers :
                 handlers'[h] = [pc |-> "querying", sid |-> event'.sid,
                                 client |-> session_clients[event'.sid]]]_vars
    /\ [][(\E h \in Handlers : handlers[h].pc = "idle"
                                /\ handlers'[h].pc = "querying")
            => event'.kind = "found"]_vars

C35_Witness ==
    /\ event.kind = "spawned"
    /\ shutdown.pc = "no"
    /\ \E p \in DOMAIN procs :
         /\ p < event.client
         /\ procs[p].sid = event.sid
         /\ procs[p].state = "running"
         /\ ~procs[p].asked
         /\ \A h \in Handlers : handlers[h].client # p

\* C31: every session that has a client in session_clients has an entry in
\* user_sessions.
C31_ClientOnlyWithSession ==
    \A s \in Sessions : session_clients[s] # 0 => user_sessions[s] # NoActivity

\* C32: is_session_valid(s) returns False and leaves user_sessions without s
\* when s is unknown or its last activity is more than SESSION_TIMEOUT ago;
\* otherwise it returns True and changes nothing; a text message sets the
\* session's last activity to the current time.
C32_SessionValidity ==
    /\ [][event'.kind \in {"valid", "invalid"} =>
            IF \/ user_sessions[event'.sid] = NoActivity
               \/ now - user_sessions[event'.sid] > SESSION_TIMEOUT
            THEN /\ event'.kind = "invalid"
                 /\ user_sessions' =
                      [user_sessions EXCEPT ![event'.sid] = NoActivity]
            ELSE /\ event'.kind = "valid"
                 /\ user_sessions' = user_sessions]_vars
    /\ [][(\/ event'.kind \in {"found", "spawned"}
           \/ event'.kind = "failed" /\ event'.client = 0)
          => user_sessions' = [user_sessions EXCEPT ![event'.sid] = now]]_vars

C32_Witness ==
    /\ event.kind = "valid"
    /\ now = 2 * SESSION_TIMEOUT + 1
    /\ user_sessions[event.sid] = SESSION_TIMEOUT + 1
    /\ \E s \in Sessions : /\ s # event.sid
                           /\ event.kind = "valid"
                           /\ user_sessions[s] = NoActivity
                           /\ session_clients[s] # 0

\* C38: a query goes to the GLEIF handler if it has a GLEIF keyword, else to
\* the EXIM handler if it has an EXIM keyword, else to the corporate handler
\* if it has a corporate keyword, else to the general handler; the general
\* handler makes a GLEIF tool call when a company name is extracted from the
\* query and otherwise returns the help text without a tool call.
C38_RoutingPrecedence ==
    answer # NoAnswer =>
        /\ answer.route =
             IF AnyKeyword(GleifKeywords, query) THEN "gleif"
             ELSE IF AnyKeyword(EximKeywords, query) THEN "exim"
             ELSE IF AnyKeyword(CorporateKeywords, query) THEN "corporate"
             ELSE "general"
        /\ answer.route = "general" =>
             IF _extract_company_name(query) # <<>>
             THEN answer.tool = "get-GLEIF-data"
             ELSE answer.tool = "none" /\ answer.reply = "help"

\* C33: in the handling of a message, the acknowledgement is sent before any
\* response or welcome message, before any client is constructed and before
\* any tool call.
C33_AckFirst ==
    \A i \in DOMAIN trace :
        trace[i].kind \in {"response", "welcome", "client", "tool"} =>
            \E j \in 1..(i - 1) : trace[j].kind = "ack"

C33_Witness ==
    /\ chat.pc = "done"
    /\ \E i, j, k \in DOMAIN trace :
         /\ i < j /\ j < k
         /\ trace[i].kind = "client"
         /\ trace[j].kind = "tool"
         /\ trace[k].kind = "response"
    /\ \E i \in DOMAIN trace : trace[i].kind = "welcome"

\* the response messages sent so far
Responses == SelectSeq(trace, LAMBDA d : d.kind = "response")

\* C34: each TextContent item whose processing is complete has exactly one
\* response, the responses are in item order and are for text items only,
\* also when no client could be created and when the tool call failed or
\* returned nothing; the handler never ends by an exception out of
\* process_compliance_query.
C34_OneResponsePerText ==
    /\ \A k \in 1..Len(chat.content) :
         (chat.content[k] = "text" /\ k < chat.item) =>
            Cardinality({i \in DOMAIN Responses : Responses[i].item = k}) = 1
    /\ \A i \in DOMAIN Responses :
         /\ Responses[i].item \in DOMAIN chat.content
         /\ chat.content[Responses[i].item] = "text"
         /\ Responses[i].item <= chat.item
         /\ \A j \in DOMAIN Responses : i < j =>
                Responses[i].item < Responses[j].item
    /\ chat.pc = "raised" => chat.cause = "send"

C34_Witness ==
    /\ chat.pc = "done"
    /\ Len(Responses) = 2
    /\ Responses[1].text = "sorry"
    /\ Responses[2].text = "service error"

\* C36: a driver that has constructed its client returns only through a call
\* of cleanup(), whichever way it left its try block (return, exception,
\* interrupt); when it has returned, the child, if one was spawned, has been
\* asked to terminate or was gone already.
C36_DriverAlwaysCleansUp ==
    /\ [][(driver.pc # "returned" /\ driver'.pc = "returned") =>
            /\ driver.pc = "finally"
            /\ ret'.op = "cleanup"
            /\ process' # "None" => child' \in {"exited", "reaped"}]_vars
    /\ [][(driver.pc = "try" /\ driver'.pc # "try") =>
            /\ driver'.pc = "finally"
            /\ driver'.how \in {"return", "exception", "interrupt"}]_vars
    /\ [](driver.pc = "returned" =>
            (process = "None" \/ child \in {"exited", "reaped"}))

C36_Witness ==
    /\ driver = [pc |-> "returned", how |-> "interrupt"]
    /\ ret.op = "cleanup"
    /\ process # "None"
    /\ child = "exited"
    /\ Len(sent) = 2
    /\ handshake = "ok"

====
